---- MODULE Spec2Model ----
(***************************************************************************)
(* ForgeAi merge core: the parent registry, the pre-execution validation,  *)
(* the merge_execute command with its active/cancel flags, and the         *)
(* streaming executor, as state machines translated from src-tauri/src.    *)
(***************************************************************************)
EXTENDS Integers, Sequences, FiniteSets, TLC

\* ------------------------------------------------------------------ bounds

\* registry.rs:6
MAX_PARENTS == 5

\* slot arguments a caller may pass are 0..MaxSlot (the code takes any usize)
MaxSlot == 5

\* ids handed out by uuid::Uuid::new_v4 are modelled as 1..MaxIds, never reused
MaxIds == 6

Slots == 0..MaxSlot

Ids == 1..MaxIds

\* ------------------------------------------------------------------ state

VARIABLES
    parents,      \* ParentRegistry.parents: Seq of [id, slot, tensors]
    nextId,       \* next fresh uuid
    regResult,    \* what the last registry command returned (observation)
    vcfg,         \* the MergeConfig handed to merge_validate_config / merge_preview
    validation,   \* the ValidationResult it returned
    preview,      \* what build_plan returned to merge_preview for vcfg
    merge_active, \* AppState.merge_active
    merge_cancel, \* AppState.merge_cancel
    regLock,      \* holder of the AppState.merge_parents mutex (0: free)
    pc,           \* per merge_execute call: where it stands
    cfg,          \* per call: its MergeConfig
    snap,         \* per call: the registry snapshot it took
    plan,         \* per call: the operations build_plan returned
    opIdx,        \* per call: index of the loop's current operation
    tensors_done, \* per call: tensors written so far
    result,       \* per call: what execute_merge / merge_execute returns
    fs,           \* the output locations on disk
    phases,       \* per call: the phases emitted so far (merge:phase events)
    trace,        \* per call: what the run has done so far (observation)
    cancelAt,     \* per call: where it stood when the cancel flag was set
    gguf,         \* the GGUF header write_gguf wrote and what parse_header read
    aux           \* per directory and file name: the content on disk

regVars == <<parents, nextId, regResult>>

valVars == <<vcfg, validation, preview, gguf, aux>>

flagVars == <<merge_active, merge_cancel, cancelAt>>

callVars == <<pc, cfg, snap, plan, opIdx, tensors_done, result, phases, trace>>

mergeVars == <<merge_active, merge_cancel, cancelAt, regLock, pc, cfg, snap,
               plan, opIdx, tensors_done, result, fs, phases, trace>>

vars == <<parents, nextId, regResult, vcfg, validation, preview, merge_active,
          merge_cancel, regLock, pc, cfg, snap, plan, opIdx, tensors_done,
          result, fs, phases, trace, cancelAt, gguf, aux>>

\* ------------------------------------------------------------- registry.rs

\* TensorMeta: name and shape of one tensor of a parsed model file
TensorMeta(name, shape) == [name |-> name, shape |-> shape]

\* ParentModel: id, slot and CompatInfo.tensor_metas, kept as the ordered
\* names and, position by position, their shapes; file_path and is_dir of a
\* model file loaded from the directory "dirA"
ParentModel(id, slot, info) ==
    [id |-> id, slot |-> slot,
     tensors |-> [i \in 1..Len(info) |-> info[i].name],
     shapes |-> [i \in 1..Len(info) |-> info[i].shape],
     file_path |-> "dirA/model", is_dir |-> FALSE]

SlotOccupied(ps, slot) == \E i \in 1..Len(ps) : ps[i].slot = slot

\* ParentRegistry::add with the slot check dropped
add_NoSlotCheck(ps, info, slot, id) ==
    IF Len(ps) >= MAX_PARENTS
    THEN [res |-> "full", parents |-> ps]
    ELSE [res |-> "ok", parents |-> Append(ps, ParentModel(id, slot, info))]

\* ParentRegistry::add pushing before it reports a full registry
add_PushThenFail(ps, info, slot, id) ==
    IF Len(ps) >= MAX_PARENTS
    THEN [res |-> "full", parents |-> Append(ps, ParentModel(id, slot, info))]
    ELSE IF SlotOccupied(ps, slot)
    THEN [res |-> "occupied", parents |-> ps]
    ELSE [res |-> "ok", parents |-> Append(ps, ParentModel(id, slot, info))]

\* ParentRegistry::add: id is the fresh uuid the call draws
add(ps, info, slot, id) ==
    IF Len(ps) >= MAX_PARENTS
    THEN [res |-> "full", parents |-> ps]
    ELSE IF SlotOccupied(ps, slot)
    THEN [res |-> "occupied", parents |-> ps]
    ELSE [res |-> "ok", parents |-> Append(ps, ParentModel(id, slot, info))]

\* ParentRegistry::remove: retain every parent with another id
remove(ps, parent_id) == SelectSeq(ps, LAMBDA p : p.id # parent_id)

\* ParentRegistry::get
HasParent(ps, parent_id) == \E i \in 1..Len(ps) : ps[i].id = parent_id

\* ParentRegistry::clear
clear(ps) == << >>

\* merge_load_parent / merge_load_parent_dir: parse the file, lock, add
merge_load_parent(info, slot) ==
    /\ nextId <= MaxIds
    /\ regLock = 0
    /\ LET r == add(parents, info, slot, nextId) IN
        /\ parents' = r.parents
        /\ nextId' = IF r.res = "ok" THEN nextId + 1 ELSE nextId
        /\ regResult' = [cmd |-> "add", slot |-> slot, res |-> r.res,
                         before |-> parents]
    /\ UNCHANGED <<valVars, mergeVars>>

\* merge_remove_parent
merge_remove_parent(parent_id) ==
    /\ regLock = 0
    /\ parents' = remove(parents, parent_id)
    /\ regResult' = [cmd |-> "remove", slot |-> 0,
                     res |-> IF Len(remove(parents, parent_id)) < Len(parents)
                             THEN "ok" ELSE "not_found",
                     before |-> << >>]
    /\ UNCHANGED <<nextId, valVars, mergeVars>>

\* merge_clear_parents
merge_clear_parents ==
    /\ regLock = 0
    /\ parents' = clear(parents)
    /\ regResult' = [cmd |-> "clear", slot |-> 0, res |-> "ok", before |-> << >>]
    /\ UNCHANGED <<nextId, valVars, mergeVars>>

RegInit ==
    /\ parents = << >>
    /\ nextId = 1
    /\ regResult = [cmd |-> "none", slot |-> 0, res |-> "ok", before |-> << >>]

\* --------------------------------------------------------------- config.rs

\* Option<T>
None == [some |-> FALSE, id |-> 0]

Some(x) == [some |-> TRUE, id |-> x]

Methods ==
    { "Average", "Slerp", "TaskArithmetic", "Frankenmerge", "Dare", "Ties",
      "Della", "Passthrough", "ComponentMerge", "TensorSurgery",
      "ParameterSlice", "MoeConversion" }

\* MergeMethod::requires_base
requires_base(m) == m \in { "TaskArithmetic", "Dare", "Ties", "Della" }

\* MergeMethod::min_parents
min_parents(m) == IF m = "Passthrough" THEN 1 ELSE 2

\* ParentWeight; weights are kept in hundredths (1.0 is 100)
ParentWeight(parent_id, weight) == [parent_id |-> parent_id, weight |-> weight]

LayerAssignment(layer_index, source) ==
    [layer_index |-> layer_index, source_parent_id |-> source]

ComponentOverride(component, parent_id, layer_start, layer_end) ==
    [component |-> component, parent_id |-> parent_id,
     layer_start |-> layer_start, layer_end |-> layer_end]

TensorOverride(tensor_name, parent_id) ==
    [tensor_name |-> tensor_name, parent_id |-> parent_id]

\* MethodParams::slice_ranges: None
NoRanges == [some |-> FALSE, ranges |-> << >>]

\* MethodParams::slice_ranges: Some(ranges), a list of (start, end) pairs
SomeRanges(ranges) == [some |-> TRUE, ranges |-> ranges]

\* MethodParams::default(), the fields that decide the shape of a result
DefaultParams == [slice_dim |-> None, slice_ranges |-> NoRanges]

\* MergeConfig: the fields the planner, the executor and the validation read;
\* projection_strategy None is written "none"
MergeConfig(method, ps, base, layers, format, path) ==
    [ method |-> method, parents |-> ps, base_parent_id |-> base,
      layer_assignments |-> layers,
      component_overrides |-> << >>, tensor_overrides |-> << >>,
      params |-> DefaultParams, projection_strategy |-> "none",
      output |-> [format |-> format, path |-> path] ]

\* ------------------------------------------- merge_commands.rs: validation

RECURSIVE SumWeights(_)
SumWeights(pws) ==
    IF Len(pws) = 0 THEN 0 ELSE pws[1].weight + SumWeights(Tail(pws))

Abs(x) == IF x < 0 THEN 0 - x ELSE x

\* the errors merge_validate_config pushes, as the set of their kinds
ValidationErrors(config, ps) ==
    (IF Len(ps) < min_parents(config.method) THEN { "min_parents" } ELSE {})
    \cup (IF requires_base(config.method) /\ ~config.base_parent_id.some
          THEN { "requires_base" } ELSE {})
    \cup (IF \E i \in 1..Len(config.parents) :
                ~HasParent(ps, config.parents[i].parent_id)
          THEN { "parent_not_found" } ELSE {})
    \cup (IF config.output.path = "" THEN { "output_path" } ELSE {})
    \cup (IF config.method = "Frankenmerge" /\ Len(config.layer_assignments) = 0
          THEN { "frankenmerge_layers" } ELSE {})

\* the warnings merge_validate_config pushes
ValidationWarnings(config, ps) ==
    (IF Abs(SumWeights(config.parents) - 100) > 1 /\ SumWeights(config.parents) > 0
     THEN { "weights" } ELSE {})
    \cup (IF config.method = "Passthrough" /\ Len(config.layer_assignments) = 0
          THEN { "passthrough_layers" } ELSE {})
    \cup (IF config.method = "Average" /\ Len(ps) >= 2 THEN { "average" } ELSE {})

\* merge_validate_config
merge_validate_config(config, ps) ==
    [ valid |-> ValidationErrors(config, ps) = {},
      errors |-> ValidationErrors(config, ps),
      warnings |-> ValidationWarnings(config, ps) ]

NotValidated == [valid |-> FALSE, errors |-> { "not_run" }, warnings |-> {}]

\* the command: lock the registry, validate, return
ValidateCommand ==
    /\ validation = NotValidated
    /\ regLock = 0
    /\ validation' = merge_validate_config(vcfg, parents)
    /\ UNCHANGED <<regVars, vcfg, preview, gguf, aux, mergeVars>>

\* the registries the validation and the single-merge specifications start
\* from: each is reachable by add calls on an empty registry
\* Tensor names are sequences of fragments, cut so that every substring the
\* code searches for is a run of whole fragments or is absent.
\* "model.embed_tokens.weight"
TA == << "model.", "embed_tokens", ".weight" >>

\* "model.layers.0.self_attn.q_proj.weight"
TB == << "model.", "layers.", "0", ".", "self_attn", ".", "q_proj", ".weight" >>

\* the tensor_metas of the parsed model files (CompatInfo)
InfoAB == << TensorMeta(TA, <<2>>), TensorMeta(TB, <<3>>) >>

InfoA == << TensorMeta(TA, <<2>>) >>

TensorLists == { InfoAB, InfoA }

RegSamples ==
    { << >>,
      << ParentModel(1, 0, InfoAB) >>,
      << ParentModel(1, 0, InfoAB), ParentModel(2, 1, InfoAB) >>,
      << ParentModel(1, 1, InfoAB), ParentModel(2, 0, InfoA) >> }

\* parent id 0 is an id no parent has ("ghost")
ConfigSamples ==
    { MergeConfig(m, ps, b, la, f, path) :
        m \in Methods,
        ps \in { << >>, << ParentWeight(1, 50) >>,
                 << ParentWeight(1, 50), ParentWeight(2, 50) >>,
                 << ParentWeight(1, 100), ParentWeight(2, 100) >>,
                 << ParentWeight(1, 50), ParentWeight(0, 50) >> },
        b \in { None, Some(1), Some(0) },
        la \in { << >>, << LayerAssignment(0, 2) >> },
        f \in { "SafeTensors", "Gguf" },
        path \in { "", "out" } }

\* merge_preview has not been called
NoPreview == [ok |-> FALSE, operations |-> << "not_run" >>]

\* the directories the model files lie in, the output directory and the
\* working directory ("")
AuxDirs == { "dirA", "dirB", "out", "" }

\* executor.rs:336-347 AUXILIARY_FILES, cut to two of its ten names
AUXILIARY_FILES == << "tokenizer.json", "config.json" >>

\* the names a directory may hold: the auxiliary ones and another file
FileNames == { "tokenizer.json", "config.json", "README.md" }

\* no directory holds any of the files
NoFiles == [d \in AuxDirs |-> [f \in FileNames |-> "absent"]]

\* write_gguf has not been called
NoGguf ==
    [stage |-> "none", file |-> << >>, bytes_written |-> 0, padding |-> 0,
     parsed |-> FALSE, pos |-> 0, data_offset |-> 0]

ValIdle ==
    /\ vcfg = MergeConfig("Average", << >>, None, << >>, "SafeTensors", "")
    /\ validation = NotValidated
    /\ preview = NoPreview
    /\ gguf = NoGguf
    /\ aux = NoFiles

\* -------------------------------------------------------- model/inspect.rs

\* "model.layers.0.mlp.gate_proj.weight"
TC == << "model.", "layers.", "0", ".", "mlp", ".", "gate_proj", ".weight" >>

\* "blk.0.ffn_gate.weight" (GGUF naming)
TD == << "blk.", "0", ".", "ffn_", "gate", ".weight" >>

\* "model.layers.1.input_layernorm.weight"
TE == << "model.", "layers.", "1", ".", "input_", "layer", "norm", ".weight" >>

\* str::contains: pat occurs in name as a run of fragments
Contains(name, pat) ==
    \E i \in 1..(Len(name) - Len(pat) + 1) :
        SubSeq(name, i, i + Len(pat) - 1) = pat

ContainsAny(name, pats) == \E pat \in pats : Contains(name, pat)

StartsWith(name, pat) ==
    Len(name) >= Len(pat) /\ SubSeq(name, 1, Len(pat)) = pat

\* str::replace: every occurrence of pat, left to right, becomes repl
RECURSIVE Replace(_, _, _)
Replace(name, pat, repl) ==
    IF Len(name) = 0 THEN << >>
    ELSE IF StartsWith(name, pat)
    THEN repl \o Replace(SubSeq(name, Len(pat) + 1, Len(name)), pat, repl)
    ELSE << name[1] >> \o Replace(Tail(name), pat, repl)

\* classify_tensor: the pattern groups in the order the code tests them
\* (the names of the model are lower case, to_lowercase leaves them as is)
classify_tensor(name) ==
    IF ContainsAny(name, { <<"token_embd">>, <<"embed_tokens">>, <<"wte">>,
                           <<"word_embedding">> })
    THEN "embedding"
    ELSE IF \/ name = << "output", ".weight" >>
            \/ ContainsAny(name, { <<"lm_head">>, <<"output_norm">> })
            \/ StartsWith(name, << "output", "." >>) /\ ~Contains(name, <<"attn">>)
    THEN "output"
    ELSE IF ContainsAny(name, { <<"attn_q">>, <<"attn_k">>, <<"attn_v">>,
                                <<"attn_output">>, <<"q_proj">>, <<"k_proj">>,
                                <<"v_proj">>, <<"o_proj">>, <<"self_attn">>,
                                <<"qkv_proj">>, <<"attn", ".", "c_attn">>,
                                <<"attn", ".", "c_proj">> })
    THEN "attention"
    ELSE IF ContainsAny(name, { <<"norm">>, <<"layer", "norm">>, <<"ln_">>,
                                <<"layer_norm">>, <<"rms_norm">>,
                                <<"input_", "layer", "norm">>,
                                <<"post_attention_", "layer", "norm">> })
    THEN "norm"
    ELSE IF ContainsAny(name, { <<"ffn_">>, <<"mlp">>, <<"gate_proj">>,
                                <<"up_proj">>, <<"down_proj">>, <<"fc1">>,
                                <<"fc2">>, <<"c_fc">>, <<"c_proj">>,
                                <<"feed_forward">> })
    THEN "mlp"
    ELSE "other"

\* str::parse::<u64> on the digit fragments of the model
ParseU64(frag) ==
    CASE frag = "0" -> Some(0)
      [] frag = "1" -> Some(1)
      [] frag = "2" -> Some(2)
      [] OTHER -> None

\* the text after the first occurrence of pat, up to the next '.', parsed
IndexAfter(name, pat) ==
    LET hits == { i \in 1..Len(name) : name[i] = pat }
        pos == CHOOSE i \in hits : \A k \in hits : i <= k
    IN IF hits = {} \/ pos = Len(name) THEN None ELSE ParseU64(name[pos + 1])

\* extract_layer_index: the first pattern, in the order of the code, that is
\* followed by a number
extract_layer_index(name) ==
    LET pats == << "blk.", "layers.", "blocks.", "h.", "layer." >>
        hits == { k \in 1..Len(pats) : IndexAfter(name, pats[k]).some }
    IN IF hits = {} THEN None
       ELSE IndexAfter(name, pats[CHOOSE k \in hits : \A m \in hits : k <= m])

\* ------------------------------------------------------------- planner.rs

Range(seq) == { seq[i] : i \in 1..Len(seq) }

RECURSIVE Flatten(_)
Flatten(seqs) == IF Len(seqs) = 0 THEN << >> ELSE seqs[1] \o Flatten(Tail(seqs))

SetMax(S) == CHOOSE x \in S : \A y \in S : y <= x

SetMin(S) == CHOOSE x \in S : \A y \in S : x <= y

\* TensorOperation, one record shape for the four variants
Copy(tensor_name, parent_id) ==
    [kind |-> "Copy", tensor_name |-> tensor_name, parent_ids |-> <<parent_id>>,
     weights |-> << >>, shape |-> << >>]

Merge(tensor_name, parent_ids, weights) ==
    [kind |-> "Merge", tensor_name |-> tensor_name, parent_ids |-> parent_ids,
     weights |-> weights, shape |-> << >>]

Synthesize(tensor_name, shape) ==
    [kind |-> "Synthesize", tensor_name |-> tensor_name, parent_ids |-> << >>,
     weights |-> << >>, shape |-> shape]

CopyMetadata(parent_id) ==
    [kind |-> "CopyMetadata", tensor_name |-> "", parent_ids |-> <<parent_id>>,
     weights |-> << >>, shape |-> << >>]

\* shared_tensor_names without the early return for fewer than two parents
shared_tensor_names_NoGuard(ps) ==
    { n \in Range(ps[1].tensors) :
        \A i \in 2..Len(ps) : n \in Range(ps[i].tensors) }

\* shared_tensor_names retaining against the second parent only
shared_tensor_names_FirstTwo(ps) ==
    IF Len(ps) < 2 THEN {}
    ELSE { n \in Range(ps[1].tensors) : n \in Range(ps[2].tensors) }

\* ParentRegistry::shared_tensor_names
shared_tensor_names(ps) ==
    IF Len(ps) < 2 THEN {}
    ELSE { n \in Range(ps[1].tensors) :
             \A i \in 2..Len(ps) : n \in Range(ps[i].tensors) }

\* tensor_override_map.get: the map is collected in order, the last entry wins
TensorOverrideFor(config, name) ==
    LET hits == { i \in 1..Len(config.tensor_overrides) :
                    config.tensor_overrides[i].tensor_name = name }
    IN IF hits = {} THEN None
       ELSE Some(config.tensor_overrides[SetMax(hits)].parent_id)

\* component_overrides.iter().find: the first override that matches
ComponentOverrideFor(config, idx, component) ==
    LET hits == { i \in 1..Len(config.component_overrides) :
                    /\ idx >= config.component_overrides[i].layer_start
                    /\ idx <= config.component_overrides[i].layer_end
                    /\ config.component_overrides[i].component = component }
    IN IF hits = {} THEN None
       ELSE Some(config.component_overrides[SetMin(hits)].parent_id)

\* layer_assignment_map.get: collected in order, the last entry wins
LayerAssignmentFor(config, idx) ==
    LET hits == { i \in 1..Len(config.layer_assignments) :
                    config.layer_assignments[i].layer_index = idx }
    IN IF hits = {} THEN None
       ELSE Some(config.layer_assignments[SetMax(hits)].source_parent_id)

\* format!("{}", i) for the expert indices
Digit(i) == CASE i = 0 -> "0" [] i = 1 -> "1" [] i = 2 -> "2" [] i = 3 -> "3"
              [] OTHER -> "4"

\* tensor_name.replace("mlp", &format!("experts.{}.mlp", i))
ExpertName(name, i) ==
    Replace(name, <<"mlp">>, << "experts.", Digit(i), ".", "mlp" >>)

\* tensor_name.replace("gate_proj", "router.weight")
\*            .replace("ffn_gate", "router.weight")
RouterName(name) ==
    Replace(Replace(name, <<"gate_proj">>, <<"router.weight">>),
            << "ffn_", "gate" >>, <<"router.weight">>)

\* tensor_name.contains("gate_proj") || tensor_name.contains("ffn_gate")
HasGate(name) ==
    Contains(name, <<"gate_proj">>) \/ Contains(name, << "ffn_", "gate" >>)

ConfigParentIds(config) ==
    [i \in 1..Len(config.parents) |-> config.parents[i].parent_id]

ConfigWeights(config) ==
    [i \in 1..Len(config.parents) |-> config.parents[i].weight]

\* the loop body with the component override tested before the tensor override
TensorOps_ComponentFirst(config, ps, name) ==
    LET ov == TensorOverrideFor(config, name)
        layer_idx == extract_layer_index(name)
        co == IF layer_idx.some
              THEN ComponentOverrideFor(config, layer_idx.id,
                                        classify_tensor(name))
              ELSE None
    IN IF co.some THEN << Copy(name, co.id) >>
       ELSE IF ov.some THEN << Copy(name, ov.id) >>
       ELSE << Copy(name, ps[1].id) >>

\* build_plan, the body of the loop: the operations one tensor name yields
TensorOps(config, ps, name) ==
    LET primary == ps[1]
        ov == TensorOverrideFor(config, name)
        component == classify_tensor(name)
        layer_idx == extract_layer_index(name)
        co == IF layer_idx.some
              THEN ComponentOverrideFor(config, layer_idx.id, component) ELSE None
        la == IF layer_idx.some
              THEN LayerAssignmentFor(config, layer_idx.id) ELSE None
        standard == IF name \in shared_tensor_names(ps)
                    THEN << Merge(name, ConfigParentIds(config),
                                  ConfigWeights(config)) >>
                    ELSE << Copy(name, primary.id) >>
    IN IF ov.some THEN << Copy(name, ov.id) >>
       ELSE IF co.some THEN << Copy(name, co.id) >>
       ELSE IF la.some THEN << Copy(name, la.id) >>
       ELSE IF config.method \in { "Frankenmerge", "Passthrough" }
       THEN << Copy(name, primary.id) >>
       ELSE IF config.method = "MoeConversion" /\ component = "mlp"
       THEN [i \in 1..Len(ps) |-> Copy(ExpertName(name, i - 1), ps[i].id)]
            \o (IF HasGate(name) THEN << Synthesize(RouterName(name), << Len(ps), 1 >>) >>
                ELSE << >>)
       ELSE standard

\* build_plan naming the primary parent in CopyMetadata whatever the base
build_plan_PrimaryMetadata(config, ps) ==
    IF Len(ps) = 0 THEN [ok |-> FALSE, operations |-> << >>]
    ELSE [ok |-> TRUE,
          operations |->
              Flatten([i \in 1..Len(ps[1].tensors) |->
                          TensorOps(config, ps, ps[1].tensors[i])])
              \o << CopyMetadata(ps[1].id) >>]

\* build_plan
build_plan(config, ps) ==
    IF Len(ps) = 0 THEN [ok |-> FALSE, operations |-> << >>]
    ELSE [ok |-> TRUE,
          operations |->
              Flatten([i \in 1..Len(ps[1].tensors) |->
                          TensorOps(config, ps, ps[1].tensors[i])])
              \o << CopyMetadata(IF config.base_parent_id.some
                                 THEN config.base_parent_id.id
                                 ELSE ps[1].id) >>]

\* merge_preview: lock the registry, preview_plan, which is build_plan
merge_preview ==
    /\ preview = NoPreview
    /\ regLock = 0
    /\ preview' = build_plan(vcfg, parents)
    /\ UNCHANGED <<regVars, vcfg, validation, gguf, aux, mergeVars>>

\* ----------------------------------------------------------- precompute.rs

ParentById(ps, parent_id) ==
    ps[SetMin({ i \in 1..Len(ps) : ps[i].id = parent_id })]

\* what build_output_manifest does with one operation
ManifestStep(op, ps) ==
    CASE op.kind \in { "CopyMetadata", "Synthesize" } -> "ok"
      [] op.kind = "Merge" /\ Len(op.parent_ids) = 0 -> "panic"
      [] OTHER ->
            IF ~HasParent(ps, op.parent_ids[1]) THEN "parent_not_found"
            ELSE IF op.tensor_name \notin
                      Range(ParentById(ps, op.parent_ids[1]).tensors)
            THEN "tensor_not_found"
            ELSE "ok"

\* CompatInfo::tensor_shape on a parent that holds the name: the first meta
tensor_shape(parent, name) ==
    parent.shapes[SetMin({ i \in 1..Len(parent.tensors) :
                            parent.tensors[i] = name })]

RECURSIVE Product(_)
Product(shape) ==
    IF Len(shape) = 0 THEN 1 ELSE shape[1] * Product(Tail(shape))

compute_f32_byte_size(shape) == Product(shape) * 4

\* an OutputTensorInfo whose data_offset is not the running offset
OutputTensorInfo_AtZero(name, shape, f32_byte_size, data_offset) ==
    [name |-> name, shape |-> shape, f32_byte_size |-> f32_byte_size,
     data_offset |-> 0]

OutputTensorInfo(name, shape, f32_byte_size, data_offset) ==
    [name |-> name, shape |-> shape, f32_byte_size |-> f32_byte_size,
     data_offset |-> data_offset]

\* the shape build_output_manifest records for an operation it accepts
ManifestShape(op, ps) ==
    IF op.kind = "Synthesize" THEN op.shape
    ELSE tensor_shape(ParentById(ps, op.parent_ids[1]), op.tensor_name)

\* the loop of build_output_manifest from `operations` on
RECURSIVE ManifestLoop(_, _, _, _)
ManifestLoop(operations, ps, tensors, current_offset) ==
    IF Len(operations) = 0
    THEN [status |-> "ok", tensors |-> tensors,
          total_data_bytes |-> current_offset]
    ELSE LET op == operations[1]
             status == ManifestStep(op, ps)
         IN IF status # "ok"
            THEN [status |-> status, tensors |-> << >>, total_data_bytes |-> 0]
            ELSE IF op.kind = "CopyMetadata"
            THEN ManifestLoop(Tail(operations), ps, tensors, current_offset)
            ELSE LET shape == ManifestShape(op, ps)
                     byte_size == compute_f32_byte_size(shape)
                 IN ManifestLoop(Tail(operations), ps,
                                 Append(tensors,
                                        OutputTensorInfo(op.tensor_name, shape,
                                                         byte_size,
                                                         current_offset)),
                                 current_offset + byte_size)

\* build_output_manifest: the manifest, or the first failure in plan order
build_output_manifest(operations, ps) ==
    ManifestLoop(operations, ps, << >>, 0)

\* no OutputManifest has been built
NoManifest == [status |-> "none", tensors |-> << >>, total_data_bytes |-> 0]

\* ------------------------------------------------ the calls and the disk

\* concurrent merge_execute invocations
Callers == { 1, 2 }

\* the places on disk a merge to path "" or "out" touches
Nodes == { "out", "out/model.safetensors", "model.safetensors" }

NodeState(node) == IF node \in Nodes THEN fs[node] ELSE "absent"

IsFile(node) == NodeState(node) \in { "partial", "complete" }

\* executor.rs:121-161, actual_file_path
ActualFile(config) ==
    IF config.output.format = "SafeTensors"
    THEN (IF config.output.path = "" THEN "model.safetensors"
          ELSE "out/model.safetensors")
    ELSE config.output.path

\* what a call has done so far: made the output directory, created the output
\* file, loaded a tensor, started tensor operations, called writer.finish()
NoTrace ==
    [mkdir |-> FALSE, created |-> FALSE, loaded |-> FALSE, started |-> 0,
     finished |-> FALSE, manifest |-> NoManifest, io |-> << >>,
     events |-> << >>, copy_ran |-> FALSE, copied_files |-> << >>,
     aux_before |-> << >>, cancel_requested |-> FALSE]

NoCancel == [pc |-> "none", idx |-> 0, done |-> 0]

\* where execute_merge of call c stands, if it is running
Position(c) ==
    IF pc[c] \in { "ex_validating", "ex_manifest", "ex_poll2", "ex_open",
                   "ex_poll", "ex_op", "ex_finish", "ex_copy", "ex_verify" }
    THEN [pc |-> pc[c], idx |-> opIdx[c], done |-> tensors_done[c]]
    ELSE NoCancel

NoConfig == MergeConfig("Average", << >>, None, << >>, "SafeTensors", "")

\* the registry execute_merge and build_plan read: the live one, not the copy
MergeRegistry_Live(c) == parents

\* the registry execute_merge and build_plan read: the snapshot of the call
MergeRegistry(c) == snap[c]

\* ------------------------------------------------------ merge_commands.rs

\* merge_execute of call c has set merge_active and a poll of the cancel
\* flag is still ahead of it
CheckpointAhead(c) ==
    /\ merge_active
    /\ \/ pc[c] \in { "me_store_cancel", "me_lock", "me_snapshot", "me_plan",
                      "ex_validating", "ex_manifest", "ex_poll2", "ex_open",
                      "ex_poll" }
       \/ pc[c] = "ex_op" /\ opIdx[c] < Len(plan[c])

\* merge_cancel: store(true); the calls it finds with merge_active set and
\* a poll ahead note the request
merge_cancel_command ==
    /\ merge_cancel' = TRUE
    /\ cancelAt' = IF merge_cancel THEN cancelAt
                   ELSE [c \in Callers |-> Position(c)]
    /\ trace' = [c \in Callers |->
                   IF CheckpointAhead(c)
                   THEN [trace[c] EXCEPT !.cancel_requested = TRUE]
                   ELSE trace[c]]
    /\ UNCHANGED <<regVars, valVars, merge_active, regLock, pc, cfg, snap,
                   plan, opIdx, tensors_done, result, phases, fs>>

\* merge_execute:249-251: load merge_active, return the error if it is set
MeCheck(c, config) ==
    /\ pc[c] = "idle"
    /\ cfg' = [cfg EXCEPT ![c] = config]
    /\ IF merge_active
       THEN /\ pc' = [pc EXCEPT ![c] = "done"]
            /\ result' = [result EXCEPT ![c] = "err_active"]
       ELSE /\ pc' = [pc EXCEPT ![c] = "me_store_active"]
            /\ UNCHANGED result
    /\ UNCHANGED <<regVars, valVars, flagVars, regLock,
                   snap, plan, opIdx, tensors_done, fs, phases, trace>>

\* merge_execute:253: merge_active.store(true)
MeStoreActive(c) ==
    /\ pc[c] = "me_store_active"
    /\ merge_active' = TRUE
    /\ pc' = [pc EXCEPT ![c] = "me_store_cancel"]
    /\ UNCHANGED <<regVars, valVars, merge_cancel, cancelAt, regLock, cfg,
                   snap, plan, opIdx, tensors_done, result, fs, phases, trace>>

\* merge_execute:254: merge_cancel.store(false)
MeStoreCancel(c) ==
    /\ pc[c] = "me_store_cancel"
    /\ merge_cancel' = FALSE
    /\ cancelAt' = [d \in Callers |-> NoCancel]
    /\ pc' = [pc EXCEPT ![c] = "me_lock"]
    /\ UNCHANGED <<regVars, valVars, merge_active, regLock, cfg,
                   snap, plan, opIdx, tensors_done, result, fs, phases, trace>>

\* merge_execute:261: lock the registry mutex
MeLock(c) ==
    /\ pc[c] = "me_lock"
    /\ regLock = 0
    /\ regLock' = c
    /\ pc' = [pc EXCEPT ![c] = "me_snapshot"]
    /\ UNCHANGED <<regVars, valVars, flagVars, cfg,
                   snap, plan, opIdx, tensors_done, result, fs, phases, trace>>

\* merge_execute:262-263: copy the parents, drop the guard
MeSnapshot(c) ==
    /\ pc[c] = "me_snapshot"
    /\ snap' = [snap EXCEPT ![c] = parents]
    /\ regLock' = 0
    /\ pc' = [pc EXCEPT ![c] = "me_plan"]
    /\ UNCHANGED <<regVars, valVars, flagVars, cfg,
                   plan, opIdx, tensors_done, result, fs, phases, trace>>

\* merge_execute:266: build_plan(&config, &snapshot)?
MePlan(c) ==
    /\ pc[c] = "me_plan"
    /\ LET r == build_plan(cfg[c], MergeRegistry(c)) IN
        IF r.ok
        THEN /\ plan' = [plan EXCEPT ![c] = r.operations]
             /\ pc' = [pc EXCEPT ![c] = "ex_validating"]
             /\ UNCHANGED result
        ELSE /\ result' = [result EXCEPT ![c] = "err_plan"]
             /\ pc' = [pc EXCEPT ![c] = "done"]
             /\ UNCHANGED plan
    /\ UNCHANGED <<regVars, valVars, flagVars, regLock, cfg,
                   snap, opIdx, tensors_done, fs, phases, trace>>

\* merge_execute:273-274: the worker stores merge_active = false and returns
ExReturn(c) ==
    /\ pc[c] = "ex_return"
    /\ merge_active' = FALSE
    /\ pc' = [pc EXCEPT ![c] = "done"]
    /\ UNCHANGED <<regVars, valVars, merge_cancel, cancelAt, regLock, cfg,
                   snap, plan, opIdx, tensors_done, result, fs, phases, trace>>

\* merge_execute:277-280: the worker panicked, the join error is mapped
ExPanic(c) ==
    /\ pc[c] = "ex_panic"
    /\ merge_active' = FALSE
    /\ result' = [result EXCEPT ![c] = "err_join"]
    /\ pc' = [pc EXCEPT ![c] = "done"]
    /\ UNCHANGED <<regVars, valVars, merge_cancel, cancelAt, regLock, cfg,
                   snap, plan, opIdx, tensors_done, fs, phases, trace>>

\* the command has returned to the frontend, which may invoke it again
Return(c) ==
    /\ pc[c] = "done"
    /\ pc' = [pc EXCEPT ![c] = "idle"]
    /\ cfg' = [cfg EXCEPT ![c] = NoConfig]
    /\ snap' = [snap EXCEPT ![c] = << >>]
    /\ plan' = [plan EXCEPT ![c] = << >>]
    /\ opIdx' = [opIdx EXCEPT ![c] = 0]
    /\ tensors_done' = [tensors_done EXCEPT ![c] = 0]
    /\ result' = [result EXCEPT ![c] = "none"]
    /\ phases' = [phases EXCEPT ![c] = << >>]
    /\ trace' = [trace EXCEPT ![c] = NoTrace]
    /\ UNCHANGED <<regVars, valVars, flagVars, regLock, fs>>

\* ------------------------------------------------------------ executor.rs

\* emit_phase sending every phase twice
Emit_Twice(c, phase) ==
    phases' = [phases EXCEPT ![c] = Append(Append(@, phase), phase)]

\* emit_phase
Emit(c, phase) == phases' = [phases EXCEPT ![c] = Append(@, phase)]

\* execute_merge returns `res` to the closure of merge_execute
Finish(c, res) ==
    /\ result' = [result EXCEPT ![c] = res]
    /\ pc' = [pc EXCEPT ![c] = "ex_return"]

\* strategy.merge: the argument checks of the strategies (methods/*.rs)
StrategyFails(method, n, weights) ==
    \/ n = 0
    \/ method \in { "Slerp", "ParameterSlice" } /\ n < 2
    \/ method = "Average" /\ n >= 2 /\ SumWeights([i \in 1..n |-> [weight |-> weights[i]]]) <= 0

\* ------------------------------------------ projections.rs, methods/*.rs
\* A tensor is modelled by its shape; Ok(shape) is a tensor, Err a failure.

Ok(shape) == [ok |-> TRUE, shape |-> shape]

Err == [ok |-> FALSE, shape |-> << >>]

Dims(shape) == 1..Len(shape)

\* projections::zero_pad
zero_pad(src, target) ==
    IF Len(src) # Len(target) THEN Err
    ELSE IF src = target THEN Ok(src)
    ELSE IF \E d \in Dims(src) : src[d] > target[d] THEN Err
    ELSE Ok(target)

\* projections::truncate: narrows only the dimensions that are too long
truncate(src, target) ==
    IF Len(src) # Len(target) THEN Err
    ELSE Ok([d \in Dims(src) |-> IF target[d] < src[d] THEN target[d]
                                 ELSE src[d]])

\* projections::interpolate; interpolate_2d indexes the source data, which
\* panics when the source is empty and the target is not
interpolate(src, target) ==
    IF Len(src) # Len(target) THEN Err
    ELSE IF src = target THEN Ok(src)
    ELSE IF Len(src) = 1 THEN Ok(target)
    ELSE IF Len(src) = 2
    THEN (IF Product(src) = 0 /\ Product(target) > 0 THEN Err ELSE Ok(target))
    ELSE IF \E d \in Dims(target) : target[d] = 0 THEN Err
    ELSE Ok(target)

\* projections::adapt_tensor
adapt_tensor(src, target, strategy) ==
    CASE strategy = "zero_padding" -> zero_pad(src, target)
      [] strategy = "truncation" -> truncate(src, target)
      [] strategy = "interpolation" -> interpolate(src, target)
      [] OTHER -> Err

\* Tensor::narrow(dim, start, len), dim counted from 1
narrow(shape, dim, start, len) ==
    IF dim > Len(shape) \/ len < 0 \/ start + len > shape[dim] THEN Err
    ELSE Ok([shape EXCEPT ![dim] = len])

RECURSIVE SumDim(_, _)
SumDim(shapes, dim) ==
    IF Len(shapes) = 0 THEN 0 ELSE shapes[1][dim] + SumDim(Tail(shapes), dim)

\* Tensor::cat(shapes, dim), dim counted from 1
cat(shapes, dim) ==
    IF Len(shapes) = 0 THEN Err
    ELSE IF \E i \in 1..Len(shapes) :
               \/ Len(shapes[i]) # Len(shapes[1])
               \/ \E d \in Dims(shapes[1]) \ { dim } :
                     shapes[i][d] # shapes[1][d]
    THEN Err
    ELSE Ok([shapes[1] EXCEPT ![dim] = SumDim(shapes, dim)])

RECURSIVE SumSeq(_)
SumSeq(ws) == IF Len(ws) = 0 THEN 0 ELSE ws[1] + SumSeq(Tail(ws))

\* (dim_size as f64 * weight / total_weight).round(), or dim_size / n
\* rounded when the weights sum to nothing
RoundShare(dim_size, weight, total_weight, n) ==
    IF total_weight > 0
    THEN (2 * dim_size * weight + total_weight) \div (2 * total_weight)
    ELSE (2 * dim_size + n) \div (2 * n)

\* parameter_slice.rs:58-78: the loop of the proportional split from parent i
RECURSIVE SliceLoop(_, _, _, _, _, _)
SliceLoop(tensors, weights, dim, i, offset, slices) ==
    IF i > Len(tensors) THEN Ok(slices)
    ELSE LET dim_size == tensors[1][dim]
             share == RoundShare(dim_size, weights[i], SumSeq(weights),
                                 Len(tensors))
             slice_len == IF i = Len(tensors) THEN dim_size - offset
                          ELSE IF share > 1 THEN share ELSE 1
         IN IF offset + slice_len > dim_size THEN Ok(slices)
            ELSE LET slice == narrow(tensors[i], dim, offset, slice_len)
                 IN IF ~slice.ok THEN Err
                    ELSE SliceLoop(tensors, weights, dim, i + 1,
                                   offset + slice_len,
                                   Append(slices, slice.shape))

\* ParameterSliceMerge::merge
parameter_slice(tensors, weights, params) ==
    LET dim == (IF params.slice_dim.some THEN params.slice_dim.id ELSE 0) + 1
        ranges == params.slice_ranges.ranges
    IN IF Len(tensors) < 2 \/ dim > Len(tensors[1]) THEN Err
       ELSE IF params.slice_ranges.some /\ Len(ranges) = Len(tensors)
       THEN LET slices == [i \in 1..Len(tensors) |->
                             narrow(tensors[i], dim, ranges[i][1],
                                    ranges[i][2] - ranges[i][1])]
            IN IF \E i \in 1..Len(tensors) : ~slices[i].ok THEN Err
               ELSE cat([i \in 1..Len(tensors) |-> slices[i].shape], dim)
       ELSE LET loop == SliceLoop(tensors, weights, dim, 1, 0, << >>)
            IN IF ~loop.ok THEN Err
               ELSE IF Len(loop.shape) = 0 THEN Ok(tensors[1])
               ELSE cat(loop.shape, dim)

\* iter().max_by(weight): of several equally maximum, the last
HighestWeight(weights) ==
    SetMax({ i \in 1..Len(weights) :
               \A j \in 1..Len(weights) : weights[j] <= weights[i] })

\* the elementwise sum of scaled tensors: candle refuses unequal shapes
SameShape(tensors, shape) ==
    IF \A i \in 1..Len(tensors) : tensors[i] = shape THEN Ok(shape) ELSE Err

\* strategy.merge(&parent_tensors, &config.params, base_tensor): `tensors`
\* are the shapes of the parent tensors, `base` the base tensor if there is one
strategy_merge(method, tensors, weights, params, base) ==
    IF Len(tensors) = 0 THEN Err
    ELSE CASE method = "Average" ->
                IF Len(tensors) = 1 THEN Ok(tensors[1])
                ELSE IF SumSeq(weights) <= 0 THEN Err
                ELSE SameShape(tensors, tensors[1])
           [] method \in { "ComponentMerge", "MoeConversion" } ->
                IF Len(tensors) = 1 \/ SumSeq(weights) <= 0 THEN Ok(tensors[1])
                ELSE SameShape(tensors, tensors[1])
           [] method = "Slerp" ->
                IF Len(tensors) < 2 THEN Err
                ELSE SameShape(SubSeq(tensors, 1, 2), tensors[1])
           [] method \in { "TaskArithmetic", "Dare", "Ties", "Della" } ->
                IF ~base.ok THEN Err ELSE SameShape(tensors, base.shape)
           [] method \in { "TensorSurgery", "Frankenmerge" } ->
                Ok(tensors[HighestWeight(weights)])
           [] method = "Passthrough" -> Ok(tensors[1])
           [] OTHER -> parameter_slice(tensors, weights, params)

\* executor.rs:201-244, the Merge arm once every parent tensor is loaded:
\* projection onto the first parent's shape, base tensor, strategy
MergeArm(op, config, ps) ==
    LET n == Len(op.parent_ids)
        loaded == [i \in 1..n |->
                     tensor_shape(ParentById(ps, op.parent_ids[i]),
                                  op.tensor_name)]
        adapted == [i \in 1..n |->
                      IF config.projection_strategy # "none" /\ n >= 2
                         /\ i >= 2 /\ loaded[i] # loaded[1]
                      THEN adapt_tensor(loaded[i], loaded[1],
                                        config.projection_strategy)
                      ELSE Ok(loaded[i])]
        bp == config.base_parent_id
        base == IF ~requires_base(config.method) THEN Err
                ELSE IF bp.some /\ HasParent(ps, bp.id)
                THEN (IF op.tensor_name \in Range(ParentById(ps, bp.id).tensors)
                      THEN Ok(tensor_shape(ParentById(ps, bp.id),
                                           op.tensor_name))
                      ELSE Err)
                ELSE IF n > 0 THEN adapted[1]
                ELSE Err
    IN IF \E i \in 1..n : ~adapted[i].ok THEN Err
       ELSE IF requires_base(config.method) /\ bp.some /\ HasParent(ps, bp.id)
               /\ ~base.ok
       THEN Err
       ELSE strategy_merge(config.method, [i \in 1..n |-> adapted[i].shape],
                           op.weights, config.params, base)

\* one tensor operation of the loop (executor.rs:171-277) with no I/O error:
\* whether it reached a load_tensor call, and whether it failed
OpRun(op, config, ps) ==
    CASE op.kind = "Synthesize" ->
            [loads |-> FALSE, ok |-> TRUE, emits |-> TRUE, shape |-> op.shape]
      [] op.kind = "Copy" ->
            IF ~HasParent(ps, op.parent_ids[1])
            THEN [loads |-> FALSE, ok |-> FALSE, emits |-> FALSE,
                  shape |-> << >>]
            ELSE LET parent == ParentById(ps, op.parent_ids[1])
                     found == op.tensor_name \in Range(parent.tensors)
                 IN [loads |-> TRUE, ok |-> found, emits |-> TRUE,
                     shape |-> IF found
                               THEN tensor_shape(parent, op.tensor_name)
                               ELSE << >>]
      [] OTHER ->
            LET n == Len(op.parent_ids)
                missing == { i \in 1..n : ~HasParent(ps, op.parent_ids[i]) }
                absent == { i \in 1..n :
                              /\ i \notin missing
                              /\ op.tensor_name \notin
                                   Range(ParentById(ps, op.parent_ids[i]).tensors) }
                bad == missing \cup absent
            IN IF bad # {}
               THEN [loads |-> SetMin(bad) > 1 \/ SetMin(bad) \in absent,
                     ok |-> FALSE, emits |-> TRUE, shape |-> << >>]
               ELSE LET merged == MergeArm(op, config, ps)
                    IN [loads |-> n > 0,
                        ok |-> /\ ~StrategyFails(config.method, n, op.weights)
                               /\ merged.ok,
                        emits |-> TRUE, shape |-> merged.shape]

\* a MergeProgress event; percent is the fraction num / den
MergeProgress(stage, percent, done, total) ==
    [stage |-> stage, num |-> percent.num, den |-> percent.den,
     tensors_done |-> done, tensors_total |-> total]

Percent(p) == [num |-> p, den |-> 1]

\* 10.0 + (tensors_done / total_ops) * 80.0 announcing one operation more
\* than are done
MergingPercent_Ahead(done, total) ==
    [num |-> 10 * total + 80 * (done + 1), den |-> total]

\* 10.0 + (tensors_done as f64 / total_ops as f64) * 80.0
MergingPercent(done, total) == [num |-> 10 * total + 80 * done, den |-> total]

\* total_ops (executor.rs:64)
total_ops(operations) ==
    Cardinality({ i \in 1..Len(operations) :
                    operations[i].kind # "CopyMetadata" })

EmitProgress(c, event) == [trace EXCEPT ![c].events = Append(@, event)]

Load(idx) == [kind |-> "load", op |-> idx, shape |-> << >>]

Write(idx, shape) == [kind |-> "write", op |-> idx, shape |-> shape]

\* the load_tensor calls of operation idx when none of them fails
Loads(idx, op, config, ps) ==
    CASE op.kind = "Synthesize" -> << >>
      [] op.kind = "Copy" -> << Load(idx) >>
      [] OTHER ->
            [i \in 1..Len(op.parent_ids) |-> Load(idx)]
            \o (IF /\ requires_base(config.method)
                    /\ config.base_parent_id.some
                    /\ HasParent(ps, config.base_parent_id.id)
                 THEN << Load(idx) >> ELSE << >>)

\* the tensor I/O of a successful operation with write_tensor called first
OpIo_WriteFirst(idx, op, config, ps, shape) ==
    << Write(idx, shape) >> \o Loads(idx, op, config, ps)

\* the tensor I/O of a successful operation: its loads, then write_tensor
OpIo(idx, op, config, ps, shape) ==
    Loads(idx, op, config, ps) \o << Write(idx, shape) >>

\* the loop body of executor.rs:171-277 on the history of call c
OpTrace(c, op, run, success) ==
    [trace EXCEPT
       ![c].started = @ + 1,
       ![c].loaded = @ \/ run.loads,
       ![c].events = IF run.emits
                     THEN Append(@, MergeProgress("merging",
                                     MergingPercent(tensors_done[c],
                                                    total_ops(plan[c])),
                                     tensors_done[c], total_ops(plan[c])))
                     ELSE @,
       ![c].io = @ \o (IF success
                       THEN OpIo(opIdx[c], op, cfg[c], MergeRegistry(c),
                                 run.shape)
                       ELSE IF run.loads THEN << Load(opIdx[c]) >>
                       ELSE << >>)]

\* executor.rs:67-80: phase "validating", first poll of the cancel flag
ExValidating(c) ==
    /\ pc[c] = "ex_validating"
    /\ Emit(c, "validating")
    /\ trace' = EmitProgress(c, MergeProgress("validating", Percent(2), 0,
                                               total_ops(plan[c])))
    /\ IF merge_cancel
       THEN Finish(c, "cancelled")
       ELSE /\ pc' = [pc EXCEPT ![c] = "ex_manifest"]
            /\ UNCHANGED result
    /\ UNCHANGED <<regVars, valVars, flagVars, regLock, cfg, snap, plan,
                   opIdx, tensors_done, fs>>

\* executor.rs:83-95: phase "planning", build_output_manifest(...)?
ExManifest(c) ==
    /\ pc[c] = "ex_manifest"
    /\ Emit(c, "planning")
    /\ LET m == build_output_manifest(plan[c], MergeRegistry(c)) IN
        /\ trace' = [trace EXCEPT
                       ![c].manifest = m,
                       ![c].events =
                           IF m.status = "ok"
                           THEN Append(@, MergeProgress("planning", Percent(7),
                                                        0, total_ops(plan[c])))
                           ELSE @]
        /\ CASE m.status = "ok" -> /\ pc' = [pc EXCEPT ![c] = "ex_poll2"]
                                   /\ UNCHANGED result
             [] m.status = "panic" -> /\ pc' = [pc EXCEPT ![c] = "ex_panic"]
                                      /\ UNCHANGED result
             [] OTHER -> Finish(c, "err_manifest")
    /\ UNCHANGED <<regVars, valVars, flagVars, regLock, cfg, snap, plan,
                   opIdx, tensors_done, fs>>

\* executor.rs:97-99: second poll of the cancel flag
ExPoll2(c) ==
    /\ pc[c] = "ex_poll2"
    /\ IF merge_cancel
       THEN Finish(c, "cancelled")
       ELSE /\ pc' = [pc EXCEPT ![c] = "ex_open"]
            /\ UNCHANGED result
    /\ UNCHANGED <<regVars, valVars, flagVars, regLock, cfg, snap, plan,
                   opIdx, tensors_done, fs, phases, trace>>

\* StreamingSafeTensorsWriter::new / StreamingGgufWriter::new on `file`:
\* File::create truncates; the header write after it may still fail
WriterNew(file, env) ==
    IF file \notin Nodes \/ NodeState(file) = "dir" \/ env = "fail_before"
    THEN [ok |-> FALSE, created |-> FALSE]
    ELSE [ok |-> env = "ok", created |-> TRUE]

\* executor.rs:119-161: phase "merging", create the directory, open the writer
ExOpen(c, env) ==
    /\ pc[c] = "ex_open"
    /\ Emit(c, "merging")
    /\ LET config == cfg[c]
           path == config.output.path
           file == ActualFile(config)
           st == config.output.format = "SafeTensors"
           dirFails == st /\ IsFile(path)
           noParent == ~st /\ Len(MergeRegistry(c)) = 0
           fs1 == IF st /\ path \in Nodes /\ ~dirFails
                  THEN [fs EXCEPT ![path] = "dir"] ELSE fs
           w == WriterNew(file, env)
       IN IF dirFails \/ noParent
          THEN /\ Finish(c, "err_open")
               /\ UNCHANGED <<fs, trace, opIdx>>
          ELSE /\ fs' = IF w.created THEN [fs1 EXCEPT ![file] = "partial"] ELSE fs1
               /\ trace' = [trace EXCEPT ![c].created = w.created,
                                         ![c].mkdir = fs1 # fs]
               /\ IF w.ok
                  THEN /\ opIdx' = [opIdx EXCEPT ![c] = 1]
                       /\ pc' = [pc EXCEPT ![c] =
                                   IF Len(plan[c]) >= 1 THEN "ex_poll"
                                   ELSE "ex_finish"]
                       /\ UNCHANGED result
                  ELSE /\ Finish(c, "err_open")
                       /\ UNCHANGED opIdx
    /\ UNCHANGED <<regVars, valVars, flagVars, regLock, cfg, snap, plan,
                   tensors_done>>

\* std::fs::remove_file, its result ignored
RemoveFile(file) ==
    IF IsFile(file) THEN [fs EXCEPT ![file] = "absent"] ELSE fs

\* executor.rs:165-169 returning without the remove_file
ExPoll_NoRemove(c) ==
    /\ pc[c] = "ex_poll"
    /\ IF merge_cancel
       THEN Finish(c, "cancelled")
       ELSE /\ pc' = [pc EXCEPT ![c] = "ex_op"]
            /\ UNCHANGED result
    /\ UNCHANGED <<regVars, valVars, flagVars, regLock, cfg, snap, plan,
                   opIdx, tensors_done, fs, phases, trace>>

\* executor.rs:165-169: the poll at the head of every loop iteration
ExPoll(c) ==
    /\ pc[c] = "ex_poll"
    /\ IF merge_cancel
       THEN /\ fs' = RemoveFile(ActualFile(cfg[c]))
            /\ Finish(c, "cancelled")
       ELSE /\ pc' = [pc EXCEPT ![c] = "ex_op"]
            /\ UNCHANGED <<result, fs>>
    /\ UNCHANGED <<regVars, valVars, flagVars, regLock, cfg, snap, plan,
                   opIdx, tensors_done, phases, trace>>

\* the loop moves on to its next iteration, or leaves
Advance(c) ==
    /\ opIdx' = [opIdx EXCEPT ![c] = @ + 1]
    /\ pc' = [pc EXCEPT ![c] =
                IF opIdx[c] + 1 <= Len(plan[c]) THEN "ex_poll" ELSE "ex_finish"]

\* executor.rs:171-282 finalizing the file after every tensor it writes
ExOp_FinishEach(c, io_ok) ==
    /\ pc[c] = "ex_op"
    /\ LET op == plan[c][opIdx[c]]
           run == OpRun(op, cfg[c], MergeRegistry(c))
       IN IF op.kind = "CopyMetadata"
          THEN /\ Advance(c)
               /\ UNCHANGED <<tensors_done, result, trace, fs>>
          ELSE /\ trace' = OpTrace(c, op, run, run.ok /\ io_ok)
               /\ IF run.ok /\ io_ok
                  THEN /\ tensors_done' = [tensors_done EXCEPT ![c] = @ + 1]
                       /\ fs' = IF NodeState(ActualFile(cfg[c])) = "partial"
                                THEN [fs EXCEPT ![ActualFile(cfg[c])] = "complete"]
                                ELSE fs
                       /\ Advance(c)
                       /\ UNCHANGED result
                  ELSE /\ Finish(c, "err_op")
                       /\ UNCHANGED <<tensors_done, opIdx, fs>>
    /\ UNCHANGED <<regVars, valVars, flagVars, regLock, cfg, snap, plan, phases>>

\* executor.rs:171-282: one operation of the plan; io_ok is whether the
\* loads and the write_tensor of this operation meet no I/O or numeric error
ExOp(c, io_ok) ==
    /\ pc[c] = "ex_op"
    /\ LET op == plan[c][opIdx[c]]
           run == OpRun(op, cfg[c], MergeRegistry(c))
       IN IF op.kind = "CopyMetadata"
          THEN /\ Advance(c)
               /\ UNCHANGED <<tensors_done, result, trace>>
          ELSE /\ trace' = OpTrace(c, op, run, run.ok /\ io_ok)
               /\ IF run.ok /\ io_ok
                  THEN /\ tensors_done' = [tensors_done EXCEPT ![c] = @ + 1]
                       /\ Advance(c)
                       /\ UNCHANGED result
                  ELSE /\ Finish(c, "err_op")
                       /\ UNCHANGED <<tensors_done, opIdx>>
    /\ UNCHANGED <<regVars, valVars, flagVars, regLock, cfg, snap, plan,
                   fs, phases>>

\* executor.rs:286-296: phase "writing", writer.finish()?
ExFinish(c, io_ok) ==
    /\ pc[c] = "ex_finish"
    /\ Emit(c, "writing")
    /\ trace' = [trace EXCEPT
                   ![c].finished = TRUE,
                   ![c].events = Append(@, MergeProgress("writing", Percent(91),
                                            tensors_done[c],
                                            total_ops(plan[c])))]
    /\ IF io_ok
       THEN /\ fs' = IF NodeState(ActualFile(cfg[c])) = "partial"
                     THEN [fs EXCEPT ![ActualFile(cfg[c])] = "complete"]
                     ELSE fs
            /\ pc' = [pc EXCEPT ![c] = "ex_copy"]
            /\ UNCHANGED result
       ELSE /\ Finish(c, "err_finish")
            /\ UNCHANGED fs
    /\ UNCHANGED <<regVars, valVars, flagVars, regLock, cfg, snap, plan,
                   opIdx, tensors_done>>

\* executor.rs:298-300: phase "copying", copy_auxiliary_files
\* Path::parent of a model file path or of the output path
PathParent(path) ==
    CASE path = "dirA/model" -> "dirA"
      [] path = "dirB/model" -> "dirB"
      [] OTHER -> ""

\* executor.rs:121-161, aux_target_dir
AuxTargetDir(config) ==
    IF config.output.format = "SafeTensors" THEN config.output.path
    ELSE PathParent(config.output.path)

\* copy_auxiliary_files: the parent whose directory is the source, as a
\* sequence of at most one parent
SourceParent(registry, base_parent_id) ==
    IF base_parent_id.some /\ HasParent(registry, base_parent_id.id)
    THEN << ParentById(registry, base_parent_id.id) >>
    ELSE IF \E i \in 1..Len(registry) : registry[i].is_dir
    THEN << registry[SetMin({ i \in 1..Len(registry) : registry[i].is_dir })] >>
    ELSE IF Len(registry) > 0 THEN << registry[1] >>
    ELSE << >>

\* copy_auxiliary_files: source_dir of the source parent
SourceDir(p) == IF p.is_dir THEN p.file_path ELSE PathParent(p.file_path)

\* the loop of copy_auxiliary_files from its k-th file name on; fs::copy of
\* file name f succeeds, fails before it creates dst, or fails after
RECURSIVE CopyLoop(_, _, _, _, _, _)
CopyLoop(files, src, dst, k, outcome, copied) ==
    IF k > Len(AUXILIARY_FILES)
    THEN [files |-> files, copied |-> copied]
    ELSE LET f == AUXILIARY_FILES[k] IN
         IF files[src][f] # "absent" /\ files[dst][f] = "absent"
         THEN CASE outcome[f] = "ok" ->
                     CopyLoop([files EXCEPT ![dst][f] = files[src][f]],
                              src, dst, k + 1, outcome, Append(copied, f))
                [] outcome[f] = "partial" ->
                     CopyLoop([files EXCEPT ![dst][f] = "partial"],
                              src, dst, k + 1, outcome, copied)
                [] OTHER -> CopyLoop(files, src, dst, k + 1, outcome, copied)
         ELSE CopyLoop(files, src, dst, k + 1, outcome, copied)

\* copy_auxiliary_files overwriting what the output directory holds
copy_auxiliary_files_Overwrite(files, output_dir, registry, base, outcome) ==
    LET sp == SourceParent(registry, base) IN
    IF sp = << >> THEN [files |-> files, copied |-> << >>]
    ELSE CopyLoop([files EXCEPT ![output_dir] =
                      [f \in FileNames |-> "absent"]],
                  SourceDir(sp[1]), output_dir, 1, outcome, << >>)

\* copy_auxiliary_files
copy_auxiliary_files(files, output_dir, registry, base, outcome) ==
    LET sp == SourceParent(registry, base) IN
    IF sp = << >> THEN [files |-> files, copied |-> << >>]
    ELSE CopyLoop(files, SourceDir(sp[1]), output_dir, 1, outcome, << >>)

\* the outcomes of the fs::copy calls, per file name
CopyOutcomes == [Range(AUXILIARY_FILES) -> { "ok", "fail", "partial" }]

ExCopyAux(c, outcome) ==
    /\ pc[c] = "ex_copy"
    /\ Emit(c, "copying")
    /\ LET r == copy_auxiliary_files(aux, AuxTargetDir(cfg[c]),
                                     MergeRegistry(c), cfg[c].base_parent_id,
                                     outcome)
       IN /\ aux' = r.files
          /\ trace' = [trace EXCEPT ![c].copy_ran = TRUE,
                                    ![c].copied_files = r.copied,
                                    ![c].aux_before = aux]
    /\ pc' = [pc EXCEPT ![c] = "ex_verify"]
    /\ UNCHANGED <<regVars, vcfg, validation, preview, gguf, flagVars,
                   regLock, cfg, snap, plan, opIdx, tensors_done, result, fs>>

\* executor.rs:303-332: phase "verifying", std::fs::metadata(...)?, Ok(result)
ExVerify(c) ==
    /\ pc[c] = "ex_verify"
    /\ Emit(c, "verifying")
    /\ LET n == total_ops(plan[c])
           verifying == MergeProgress("verifying", Percent(97), n, n)
           complete == MergeProgress("complete", Percent(100), n, n)
       IN IF NodeState(ActualFile(cfg[c])) = "absent"
          THEN /\ trace' = [trace EXCEPT ![c].events = Append(@, verifying)]
               /\ Finish(c, "err_verify")
          ELSE /\ trace' = [trace EXCEPT
                              ![c].events = @ \o << verifying, complete >>]
               /\ Finish(c, "ok")
    /\ UNCHANGED <<regVars, valVars, flagVars, regLock, cfg, snap, plan,
                   opIdx, tensors_done, fs>>

\* one step of the worker that runs execute_merge for call c
ExecuteStep(c) ==
    \/ ExValidating(c)
    \/ ExManifest(c)
    \/ ExPoll2(c)
    \/ \E env \in { "ok", "fail_before", "fail_after" } : ExOpen(c, env)
    \/ ExPoll(c)
    \/ \E io_ok \in BOOLEAN : ExOp(c, io_ok)
    \/ \E io_ok \in BOOLEAN : ExFinish(c, io_ok)
    \/ \E outcome \in CopyOutcomes : ExCopyAux(c, outcome)
    \/ ExVerify(c)
    \/ ExReturn(c)
    \/ ExPanic(c)

\* one step of the merge_execute command for call c, once invoked
MergeExecuteStep(c) ==
    \/ MeStoreActive(c)
    \/ MeStoreCancel(c)
    \/ MeLock(c)
    \/ MeSnapshot(c)
    \/ MePlan(c)
    \/ ExecuteStep(c)

CallsIdle ==
    /\ merge_active = FALSE
    /\ merge_cancel = FALSE
    /\ regLock = 0
    /\ pc = [c \in Callers |-> "idle"]
    /\ cfg = [c \in Callers |-> NoConfig]
    /\ snap = [c \in Callers |-> << >>]
    /\ plan = [c \in Callers |-> << >>]
    /\ opIdx = [c \in Callers |-> 0]
    /\ tensors_done = [c \in Callers |-> 0]
    /\ result = [c \in Callers |-> "none"]
    /\ phases = [c \in Callers |-> << >>]
    /\ trace = [c \in Callers |-> NoTrace]
    /\ cancelAt = [c \in Callers |-> NoCancel]

MergeIdle == CallsIdle /\ fs = [n \in Nodes |-> "absent"]

\* ---------------------------------------------------- registry specification

InitRegistry == RegInit /\ ValIdle /\ MergeIdle

NextRegistry ==
    \/ \E slot \in Slots : merge_load_parent(InfoA, slot)
    \/ \E id \in Ids : merge_remove_parent(id)
    \/ merge_clear_parents

SpecRegistry == InitRegistry /\ [][NextRegistry]_vars

\* ---------------------------------------------------- validation specification

InitValidate ==
    /\ parents \in RegSamples
    /\ nextId = Len(parents) + 1
    /\ regResult = [cmd |-> "none", slot |-> 0, res |-> "ok", before |-> << >>]
    /\ vcfg \in ConfigSamples
    /\ validation = NotValidated
    /\ preview = NoPreview
    /\ gguf = NoGguf
    /\ aux = NoFiles
    /\ MergeIdle

NextValidate == ValidateCommand

SpecValidate == InitValidate /\ [][NextValidate]_vars

\* ------------------------------------------------------ plan specification
\* merge_preview on every sampled configuration and registry.

InfoFull ==
    << TensorMeta(TA, <<2>>), TensorMeta(TB, <<3>>), TensorMeta(TC, <<3>>),
       TensorMeta(TE, <<2>>) >>

InfoGguf == << TensorMeta(TA, <<2>>), TensorMeta(TD, <<3>>) >>

\* registries reachable by add calls; in the fourth, slot 1 was filled first
PlanRegs ==
    { << >>,
      << ParentModel(1, 0, InfoFull) >>,
      << ParentModel(1, 0, InfoFull), ParentModel(2, 1, InfoFull),
         ParentModel(3, 2, InfoAB) >>,
      << ParentModel(1, 1, InfoFull), ParentModel(2, 0, InfoAB) >>,
      << ParentModel(1, 0, InfoGguf), ParentModel(2, 1, InfoGguf) >> }

PlanConfigs ==
    { [MergeConfig(m, << ParentWeight(1, 50), ParentWeight(2, 50) >>, b, la,
                   "SafeTensors", "out")
         EXCEPT !.component_overrides = co, !.tensor_overrides = ov] :
        m \in Methods,
        b \in { None, Some(2) },
        la \in { << >>, << LayerAssignment(0, 1) >>,
                 << LayerAssignment(0, 1), LayerAssignment(1, 3) >> },
        co \in { << >>, << ComponentOverride("attention", 2, 0, 0) >>,
                 << ComponentOverride("mlp", 3, 0, 1),
                    ComponentOverride("norm", 2, 1, 2) >> },
        ov \in { << >>, << TensorOverride(TB, 3) >>,
                 << TensorOverride(TC, 1), TensorOverride(TD, 2) >> } }

InitPlan ==
    /\ parents \in PlanRegs
    /\ nextId = Len(parents) + 1
    /\ regResult = [cmd |-> "none", slot |-> 0, res |-> "ok", before |-> << >>]
    /\ vcfg \in PlanConfigs
    /\ validation = NotValidated
    /\ preview = NoPreview
    /\ gguf = NoGguf
    /\ aux = NoFiles
    /\ MergeIdle

NextPlan == merge_preview

SpecPlan == InitPlan /\ [][NextPlan]_vars

\* -------------------------------------------------- single-merge specification
\* One merge_execute call on a fixed registry, with merge_cancel requests
\* arriving at any moment.

\* the configurations a merge is started with
MergeSamples ==
    { config \in ConfigSamples :
        /\ config.method \in { "Average", "Slerp", "TaskArithmetic",
                               "Passthrough", "Frankenmerge", "MoeConversion" }
        /\ SumWeights(config.parents) <= 100 }

FsSamples ==
    { [n \in Nodes |-> "absent"],
      [n \in Nodes |-> IF n = "out" THEN "dir"
                       ELSE IF n = "out/model.safetensors" THEN "complete"
                       ELSE "absent"],
      [n \in Nodes |-> IF n = "out" THEN "complete" ELSE "absent"] }

InitMerge ==
    /\ parents \in RegSamples
    /\ nextId = Len(parents) + 1
    /\ regResult = [cmd |-> "none", slot |-> 0, res |-> "ok", before |-> << >>]
    /\ ValIdle
    /\ CallsIdle
    /\ fs \in FsSamples

NextMerge ==
    \/ \E config \in MergeSamples : MeCheck(1, config)
    \/ MergeExecuteStep(1)
    \/ merge_cancel_command

SpecMerge == InitMerge /\ [][NextMerge]_vars

\* ------------------------------------------------------ shape specification
\* One merge_execute call at a time on registries whose tensors differ in
\* shape, under every method, projection strategy and slice parameter.

\* a matrix with no rows, then a vector
InfoEmpty == << TensorMeta(TA, << 0, 2 >>), TensorMeta(TB, <<3>>) >>

\* a scalar, then a matrix
InfoWide == << TensorMeta(TA, << >>), TensorMeta(TB, << 2, 2 >>) >>

\* the same names with a longer matrix
InfoLong == << TensorMeta(TA, << >>), TensorMeta(TB, << 3, 2 >>) >>

ShapeRegs ==
    { << >>,
      << ParentModel(1, 0, InfoEmpty), ParentModel(2, 1, InfoEmpty) >>,
      << ParentModel(1, 0, InfoWide), ParentModel(2, 1, InfoLong) >>,
      << ParentModel(1, 0, InfoLong), ParentModel(2, 1, InfoWide) >>,
      << ParentModel(1, 0, InfoAB), ParentModel(2, 1, InfoAB),
         ParentModel(3, 2, InfoAB) >>,
      << ParentModel(1, 0, InfoGguf), ParentModel(2, 1, InfoGguf) >>,
      << ParentModel(1, 0, InfoFull), ParentModel(2, 1, InfoFull) >> }

ShapeConfigs ==
    { [MergeConfig(m, ps, b, << >>, "SafeTensors", "out")
         EXCEPT !.params = pr, !.projection_strategy = proj] :
        m \in Methods,
        ps \in { << >>,
                 << ParentWeight(1, 50), ParentWeight(2, 50) >>,
                 << ParentWeight(1, 50), ParentWeight(2, 50),
                    ParentWeight(3, 0) >> },
        b \in { None, Some(2) },
        pr \in { DefaultParams,
                 [DefaultParams EXCEPT
                    !.slice_ranges = SomeRanges(<< << 0, 1 >>, << 0, 1 >> >>)] },
        proj \in { "none", "zero_padding", "truncation", "interpolation" } }

InitShape ==
    /\ parents \in ShapeRegs
    /\ nextId = Len(parents) + 1
    /\ regResult = [cmd |-> "none", slot |-> 0, res |-> "ok", before |-> << >>]
    /\ ValIdle
    /\ MergeIdle

NextShape ==
    \/ \E config \in ShapeConfigs : MeCheck(1, config)
    \/ MergeExecuteStep(1)

SpecShape == InitShape /\ [][NextShape]_vars

\* -------------------------------------------------- concurrent specification
\* Two frontend calls of merge_execute on the multi-threaded runtime, with
\* registry commands arriving at any moment.

\* the registry starts with the two parents issued last but one, so that
\* MaxIds bounds the adds still to come
FirstId == MaxIds - 2

RaceSlots == { 0 }

RaceIds == { FirstId }

RaceConfigs ==
    { MergeConfig("Average", ps, None, << >>, "Gguf", "out") :
        ps \in { << ParentWeight(FirstId, 50), ParentWeight(FirstId + 1, 50) >>,
                 << >> } }

Init ==
    /\ parents = << ParentModel(FirstId, 0, InfoA),
                    ParentModel(FirstId + 1, 1, InfoA) >>
    /\ nextId = FirstId + 2
    /\ regResult = [cmd |-> "none", slot |-> 0, res |-> "ok", before |-> << >>]
    /\ ValIdle
    /\ MergeIdle

Next ==
    \/ \E c \in Callers, config \in RaceConfigs : MeCheck(c, config)
    \/ \E c \in Callers : MergeExecuteStep(c)
    \/ \E c \in Callers : Return(c)
    \/ \E slot \in RaceSlots : merge_load_parent(InfoA, slot)
    \/ \E id \in RaceIds : merge_remove_parent(id)
    \/ merge_clear_parents

Spec == Init /\ [][Next]_vars

\* ------------------------------- merge/output.rs, merge/tensor_io.rs: GGUF
\* The header is modelled by the lengths of its fields: a metadata entry by
\* the length of its key, its type tag and the size of its payload, a tensor
\* info by the length of its name and its number of dimensions.

MaxNameLen == 33

\* GgufMetaValue; an array has n elements, its strings have length len
MetaString(len) == [kind |-> "String", len |-> len, n |-> 0]

MetaU32 == [kind |-> "U32", len |-> 0, n |-> 0]

MetaF32 == [kind |-> "F32", len |-> 0, n |-> 0]

MetaStringArray(n, len) == [kind |-> "StringArray", len |-> len, n |-> n]

MetaF32Array(n) == [kind |-> "F32Array", len |-> 0, n |-> n]

MetaI32Array(n) == [kind |-> "I32Array", len |-> 0, n |-> n]

\* a metadata entry as it lies in a file: key, type tag and, for an array,
\* element type and count
KvEntry(key_len, vtype, elem_type, count, len) ==
    [key_len |-> key_len, vtype |-> vtype, elem_type |-> elem_type,
     count |-> count, len |-> len]

\* the tags and payload write_gguf_value writes for a value
Encode(key_len, value) ==
    CASE value.kind = "String" -> KvEntry(key_len, 8, 0, 0, value.len)
      [] value.kind = "U32" -> KvEntry(key_len, 4, 0, 0, 0)
      [] value.kind = "F32" -> KvEntry(key_len, 6, 0, 0, 0)
      [] value.kind = "StringArray" -> KvEntry(key_len, 9, 8, value.n, value.len)
      [] value.kind = "F32Array" -> KvEntry(key_len, 9, 6, value.n, 0)
      [] value.kind = "I32Array" -> KvEntry(key_len, 9, 5, value.n, 0)

\* write_gguf_string: the bytes it wrote
write_gguf_string(len) == 8 + len

\* write_gguf_value: the bytes it wrote
write_gguf_value(value) ==
    CASE value.kind = "String" -> 4 + write_gguf_string(value.len)
      [] value.kind = "U32" -> 4 + 4
      [] value.kind = "F32" -> 4 + 4
      [] value.kind = "StringArray" ->
            4 + 4 + 8 + value.n * write_gguf_string(value.len)
      [] value.kind = "F32Array" -> 4 + 4 + 8 + value.n * 4
      [] value.kind = "I32Array" -> 4 + 4 + 8 + value.n * 4

\* skip_gguf_value on a value that is not an array: the bytes it skips
SkipScalar(vtype, len) ==
    CASE vtype \in { 0, 1, 7 } -> 1
      [] vtype \in { 2, 3 } -> 2
      [] vtype \in { 4, 5, 6 } -> 4
      [] vtype = 8 -> 8 + len
      [] vtype \in { 10, 11, 12 } -> 8
      [] OTHER -> 4

\* skip_gguf_value (output.rs): the bytes from the value's start to its end
skip_gguf_value(e) ==
    IF e.vtype = 9 THEN 12 + e.count * SkipScalar(e.elem_type, e.len)
    ELSE SkipScalar(e.vtype, e.len)

NoSource == [some |-> FALSE, entries |-> << >>]

Source(entries) == [some |-> TRUE, entries |-> entries]

\* extract_gguf_metadata on a complete source file: the entry count and the
\* raw bytes from offset 24 to the end of the last entry
extract_gguf_metadata(entries) ==
    [kv_count |-> Len(entries),
     raw_kv_bytes |-> SumSeq([i \in 1..Len(entries) |->
                         8 + entries[i].key_len + 4 + skip_gguf_value(entries[i])]),
     entries |-> entries]

\* a tensor info entry: name, n_dims, the dims, ggml_type, data offset
TensorInfo(name_len, n_dims) == [name_len |-> name_len, n_dims |-> n_dims]

\* write_gguf: the value of `padding`
Padding(bytes_written) == (32 - (bytes_written % 32)) % 32

\* write_gguf up to the first byte of tensor data: the header it wrote, its
\* bytes_written counter (every increment follows a write of that size) and
\* the padding
write_gguf(tensors, source_metadata, metadata_kvs) ==
    LET kv_bytes ==
            IF source_metadata.some
            THEN extract_gguf_metadata(source_metadata.entries).raw_kv_bytes
            ELSE SumSeq([i \in 1..Len(metadata_kvs) |->
                    write_gguf_string(metadata_kvs[i].key_len)
                    + write_gguf_value(metadata_kvs[i].value)])
        info_bytes ==
            SumSeq([i \in 1..Len(tensors) |->
                write_gguf_string(tensors[i].name_len) + 4
                + 8 * tensors[i].n_dims + 4 + 8])
        bytes_written == 4 + 4 + 8 + 8 + kv_bytes + info_bytes
    IN  [file |-> [version |-> 3,
                   tensor_count |-> Len(tensors),
                   kvs |-> IF source_metadata.some
                           THEN source_metadata.entries
                           ELSE [i \in 1..Len(metadata_kvs) |->
                                   Encode(metadata_kvs[i].key_len,
                                          metadata_kvs[i].value)],
                   infos |-> tensors],
         bytes_written |-> bytes_written,
         padding |-> Padding(bytes_written)]

\* GgufReader::skip_value on a value that is not an array
ReadScalar(vtype, len) ==
    CASE vtype \in { 0, 1, 7 } -> [ok |-> TRUE, n |-> 1]
      [] vtype \in { 2, 3 } -> [ok |-> TRUE, n |-> 2]
      [] vtype \in { 4, 5, 6 } -> [ok |-> TRUE, n |-> 4]
      [] vtype = 8 -> [ok |-> TRUE, n |-> 8 + len]
      [] vtype \in { 10, 11, 12 } -> [ok |-> TRUE, n |-> 8]
      [] OTHER -> [ok |-> FALSE, n |-> 0]

\* GgufReader::skip_value (tensor_io.rs): how far pos moves
skip_value(e) ==
    IF e.vtype = 9
    THEN [ok |-> e.count = 0 \/ ReadScalar(e.elem_type, e.len).ok,
          n |-> 4 + 8 + e.count * ReadScalar(e.elem_type, e.len).n]
    ELSE ReadScalar(e.vtype, e.len)

\* GgufReader::parse_header: data_offset with the round-up one short
DataOffset_Floor(pos) == (pos \div 32) * 32

\* GgufReader::parse_header: data_offset
DataOffset(pos) == ((pos + 32 - 1) \div 32) * 32

\* GgufReader::parse_header on a file write_gguf wrote
parse_header(file) ==
    LET counts == IF file.version >= 3 THEN 8 + 8 ELSE 4 + 4
        kv_pos == SumSeq([i \in 1..Len(file.kvs) |->
                     8 + file.kvs[i].key_len + 4 + skip_value(file.kvs[i]).n])
        info_pos == SumSeq([i \in 1..Len(file.infos) |->
                       8 + file.infos[i].name_len + 4
                       + 8 * file.infos[i].n_dims + 4 + 8])
        pos == 4 + 4 + counts + kv_pos + info_pos
    IN  IF \A i \in 1..Len(file.kvs) : skip_value(file.kvs[i]).ok
        THEN [ok |-> TRUE, pos |-> pos, data_offset |-> DataOffset(pos)]
        ELSE [ok |-> FALSE, pos |-> 0, data_offset |-> 0]

\* the header is written, the padding after it
WriteGguf(tensors, source_metadata, metadata_kvs) ==
    /\ gguf.stage = "none"
    /\ LET w == write_gguf(tensors, source_metadata, metadata_kvs) IN
        gguf' = [gguf EXCEPT !.stage = "written", !.file = w.file,
                             !.bytes_written = w.bytes_written,
                             !.padding = w.padding]
    /\ UNCHANGED <<regVars, vcfg, validation, preview, aux, mergeVars>>

\* load_gguf_tensor opens the file and parses its header
ParseHeader ==
    /\ gguf.stage = "written"
    /\ LET r == parse_header(gguf.file) IN
        gguf' = [gguf EXCEPT !.stage = "parsed", !.parsed = r.ok,
                             !.pos = r.pos, !.data_offset = r.data_offset]
    /\ UNCHANGED <<regVars, vcfg, validation, preview, aux, mergeVars>>

\* ------------------------------------------------------- GGUF specification
\* write_gguf on tensor lists and metadata of every header length modulo 32,
\* then the reader on the file.

GgufTensors ==
    { << >> }
    \cup { << TensorInfo(n, d) >> : n \in 0..MaxNameLen, d \in 0..2 }
    \cup { << TensorInfo(5, 1), TensorInfo(n, 2) >> : n \in { 0, 7 } }

\* metadata of source GGUF files: none, an u8, a string and an array of
\* u16, a type the reader does not know
GgufSources ==
    { NoSource,
      Source(<< >>),
      Source(<< KvEntry(3, 0, 0, 0, 0) >>),
      Source(<< KvEntry(3, 8, 0, 0, 5), KvEntry(2, 9, 2, 3, 0) >>),
      Source(<< KvEntry(1, 13, 0, 0, 0) >>) }

\* build_gguf_metadata: general.architecture, general.name and
\* general.file_type, then the optional keys
MetaRequired(name_len) ==
    << [key_len |-> 20, value |-> MetaString(5)],
       [key_len |-> 12, value |-> MetaString(name_len)],
       [key_len |-> 17, value |-> MetaU32] >>

GgufMetas ==
    { MetaRequired(m) \o extra :
        m \in { 0, 6 },
        extra \in { << >>,
                    << [key_len |-> 20, value |-> MetaU32] >>,
                    << [key_len |-> 9, value |-> MetaF32],
                       [key_len |-> 4, value |-> MetaStringArray(2, 3)] >>,
                    << [key_len |-> 2, value |-> MetaF32Array(2)],
                       [key_len |-> 3, value |-> MetaI32Array(1)] >> } }

InitGguf ==
    /\ RegInit
    /\ ValIdle
    /\ MergeIdle

NextGguf ==
    \/ \E tensors \in GgufTensors, source \in GgufSources, kvs \in GgufMetas :
          WriteGguf(tensors, source, kvs)
    \/ ParseHeader

SpecGguf == InitGguf /\ [][NextGguf]_vars

\* ------------------------------------------- auxiliary-file specification
\* One merge_execute call at a time on parents loaded from files and from
\* directories, with auxiliary files present in the parents' directories
\* and in the output location.

\* a parent loaded by merge_load_parent (a file) or merge_load_parent_dir
AuxParent(id, slot, file_path, is_dir) ==
    [ParentModel(id, slot, InfoA) EXCEPT !.file_path = file_path,
                                         !.is_dir = is_dir]

AuxRegs ==
    { << AuxParent(1, 0, "dirA/model", FALSE), AuxParent(2, 1, "dirB", TRUE) >>,
      << AuxParent(1, 0, "dirA", TRUE), AuxParent(2, 1, "dirB", TRUE) >>,
      << AuxParent(1, 0, "dirA/model", FALSE),
         AuxParent(2, 1, "dirB/model", FALSE) >>,
      << AuxParent(1, 0, "dirB/model", FALSE), AuxParent(2, 1, "dirA", TRUE) >> }

\* base_parent_id: none, a registered parent, an id no parent has
AuxConfigs ==
    { MergeConfig("Average", ps, b, << >>, f, "out") :
        ps \in { << ParentWeight(1, 50), ParentWeight(2, 50) >>, << >> },
        b \in { None, Some(1), Some(2), Some(0) },
        f \in { "SafeTensors", "Gguf" } }

\* the file names a parent directory holds
SourceHoldings ==
    { {}, { "tokenizer.json" }, { "tokenizer.json", "config.json", "README.md" } }

\* the file names the output location holds before the merge
TargetHoldings == { {}, { "config.json" }, { "tokenizer.json", "README.md" } }

\* a file's content is named after the directory it was first found in
AuxFiles(inA, inB, inOut, inCwd) ==
    [d \in AuxDirs |->
        [f \in FileNames |->
            CASE d = "dirA" /\ f \in inA -> "A"
              [] d = "dirB" /\ f \in inB -> "B"
              [] d = "out" /\ f \in inOut -> "old"
              [] d = "" /\ f \in inCwd -> "old"
              [] OTHER -> "absent"]]

InitAux ==
    /\ parents \in AuxRegs
    /\ nextId = Len(parents) + 1
    /\ regResult = [cmd |-> "none", slot |-> 0, res |-> "ok", before |-> << >>]
    /\ vcfg = MergeConfig("Average", << >>, None, << >>, "SafeTensors", "")
    /\ validation = NotValidated
    /\ preview = NoPreview
    /\ gguf = NoGguf
    /\ CallsIdle
    /\ \E inA \in SourceHoldings, inB \in SourceHoldings,
          inOut \in TargetHoldings, inCwd \in TargetHoldings :
          /\ inOut = {} \/ inCwd = {}
          /\ aux = AuxFiles(inA, inB, inOut, inCwd)
          /\ fs = [n \in Nodes |-> IF n = "out" /\ inOut # {} THEN "dir"
                                   ELSE "absent"]

NextAux ==
    \/ \E config \in AuxConfigs : MeCheck(1, config)
    \/ MergeExecuteStep(1)

SpecAux == InitAux /\ [][NextAux]_vars

\* ------------------------------------------------------------- properties

\* the positions of a call between build_plan and the return of the worker
Running ==
    { "me_plan", "ex_validating", "ex_manifest", "ex_poll2", "ex_open",
      "ex_poll", "ex_op", "ex_finish", "ex_copy", "ex_verify", "ex_return",
      "ex_panic" }

\* C1: at most one merge executes at any time; a merge_execute call made
\* while another has not finished is refused and never plans or executes.
C1_AtMostOneMerge ==
    Cardinality({ c \in Callers : pc[c] \in Running }) <= 1

\* the cancel request found call c inside the loop, after its first tensor
\* operation and with a poll still ahead
CancelledInLoop(c) ==
    /\ cancelAt[c].done >= 1
    /\ \/ cancelAt[c].pc = "ex_poll"
       \/ cancelAt[c].pc = "ex_op" /\ cancelAt[c].idx < Len(plan[c])

\* C2: a cancel request that arrives after the first tensor operation and
\* while polls are still ahead makes execute_merge return MergeCancelled,
\* and afterwards nothing that the merge made exists at config.output.path,
\* whatever the format.
C2_CancelLeavesNoOutputPath ==
    \A c \in Callers :
        (pc[c] = "done" /\ CancelledInLoop(c) /\ result[c] # "err_op")
            => /\ result[c] = "cancelled"
               /\ \/ NodeState(cfg[c].output.path) = "absent"
                  \/ ~trace[c].mkdir /\ ~trace[c].created

\* the cancel request found call c with a poll of the flag still ahead
PollAhead(c) ==
    \/ cancelAt[c].pc \in { "ex_validating", "ex_manifest", "ex_poll2",
                            "ex_open", "ex_poll" }
    \/ cancelAt[c].pc = "ex_op" /\ cancelAt[c].idx < Len(plan[c])

\* no tensor operation was started after the one the request found running
NoLaterOperation(c) ==
    /\ ~trace[c].finished
    /\ trace[c].started <=
          cancelAt[c].done + (IF cancelAt[c].pc = "ex_op" THEN 1 ELSE 0)

\* call c returned MergeCancelled and removed the file it had created
CancelledClean(c) ==
    /\ result[c] = "cancelled"
    /\ trace[c].created => NodeState(ActualFile(cfg[c])) = "absent"

\* the step the request found running failed by itself
StepInProgressFailed(c) ==
    \/ result[c] \in { "err_manifest", "err_join" } /\ cancelAt[c].pc = "ex_manifest"
    \/ result[c] = "err_open" /\ cancelAt[c].pc = "ex_open"
    \/ result[c] = "err_op" /\ cancelAt[c].pc = "ex_op"

ConfigError(config, ps) ==
    ValidationErrors(config, ps) \cap
        { "parent_not_found", "min_parents", "requires_base", "output_path" } # {}

\* C4: a merge whose configuration has a configuration error is never
\* started: merge_execute returns an error before the merging phase, before
\* any output file is created and before any tensor is loaded.
C4_ConfigErrorNeverStarts ==
    \A c \in Callers :
        (pc[c] \in Running \cup { "done" } /\ ConfigError(cfg[c], snap[c]))
            => /\ \A i \in 1..Len(phases[c]) : phases[c][i] # "merging"
               /\ ~trace[c].created
               /\ ~trace[c].loaded
               /\ result[c] # "ok"

\* what the claim counts as a configuration error
ClaimedInvalid(config, ps) ==
    \/ Len(ps) < min_parents(config.method)
    \/ /\ requires_base(config.method)
       /\ \/ ~config.base_parent_id.some
          \/ ~HasParent(ps, config.base_parent_id.id)
    \/ \E i \in 1..Len(config.parents) : ~HasParent(ps, config.parents[i].parent_id)
    \/ config.output.path = ""
    \/ config.method = "Frankenmerge" /\ Len(config.layer_assignments) = 0

\* C5: merge_validate_config returns valid = false exactly when the parent
\* count is below the method minimum, a required base parent is not present
\* (unset, or set to an id the registry does not hold), a configured parent id
\* does not resolve, the output path is empty, or Frankenmerge has no layer
\* assignment; warnings alone never make the result invalid.
C5_InvalidExactlyOnConfigError ==
    validation # NotValidated =>
        (validation.valid = FALSE <=> ClaimedInvalid(vcfg, parents))

\* C6: an add on a registry that already holds MAX_PARENTS parents, or whose
\* slot is taken, fails; and a failed add leaves the parent list as it was
\* (same length, ids, slots, order).
C6_FailedAddLeavesRegistry ==
    regResult.cmd = "add" =>
        /\ (Len(regResult.before) >= MAX_PARENTS
              \/ SlotOccupied(regResult.before, regResult.slot))
            => regResult.res # "ok"
        /\ regResult.res # "ok" => parents = regResult.before

\* a sixth add was just refused on a full registry
C6_Witness ==
    /\ regResult.cmd = "add"
    /\ regResult.res = "full"
    /\ Len(regResult.before) = MAX_PARENTS
    /\ Len(parents) = MAX_PARENTS

\* C7: after any sequence of add / remove / clear the registry holds 0..5
\* parents and no two of them share a slot or an id.
C7_RegistryUnique ==
    /\ Len(parents) \in 0..MAX_PARENTS
    /\ \A i, j \in 1..Len(parents) :
          i # j => /\ parents[i].slot # parents[j].slot
                   /\ parents[i].id # parents[j].id

\* a full registry reached after an earlier parent was removed and its slot
\* given to a later one
C7_Witness ==
    /\ Len(parents) = MAX_PARENTS
    /\ nextId > MAX_PARENTS + 1
    /\ regResult.cmd = "add"
    /\ regResult.res = "ok"

\* C8: every parent held in the registry has a slot in 0..4, whatever slot
\* argument the add calls were given.
C8_SlotsInRange ==
    \A i \in 1..Len(parents) : parents[i].slot \in 0..(MAX_PARENTS - 1)

\* C9: a running merge works on the snapshot taken at its start: it does
\* not hold the registry mutex while it plans or executes, its plan is the
\* plan of that snapshot, and registry commands change neither the snapshot
\* nor the plan nor what the merge has done, and a successful merge is one
\* whose every operation succeeds on the snapshot.
C9_SnapshotIsolation ==
    /\ [](\A c \in Callers :
            /\ pc[c] \in Running => regLock # c
            /\ pc[c] \in Running \ { "me_plan" }
                 => plan[c] = build_plan(cfg[c], snap[c]).operations
            /\ (pc[c] = "done" /\ result[c] = "ok")
                 => /\ build_output_manifest(plan[c], snap[c]).status = "ok"
                    /\ \A i \in 1..Len(plan[c]) :
                          \/ plan[c][i].kind = "CopyMetadata"
                          \/ OpRun(plan[c][i], cfg[c], snap[c]).ok)
    /\ [][\A c \in Callers :
            (pc[c] \in Running /\ parents' # parents)
                => /\ snap'[c] = snap[c]
                   /\ plan'[c] = plan[c]
                   /\ pc'[c] = pc[c]
                   /\ result'[c] = result[c]
                   /\ trace'[c] = trace[c]]_vars

\* a merge finished with success although the registry was emptied while
\* it ran
C9_Witness ==
    \E c \in Callers :
        /\ pc[c] = "done"
        /\ result[c] = "ok"
        /\ Len(snap[c]) = 2
        /\ parents # snap[c]

OpsNamed(n) ==
    SelectSeq(preview.operations,
              LAMBDA op : op.kind # "CopyMetadata" /\ op.tensor_name = n)

\* the parents named by the tensor overrides for n
TensorOverrideParents(n) ==
    { vcfg.tensor_overrides[i].parent_id :
        i \in { k \in 1..Len(vcfg.tensor_overrides) :
                  vcfg.tensor_overrides[k].tensor_name = n } }

\* the parents named by the component overrides whose layer range holds the
\* layer of n and whose component is the component of n
ComponentOverrideParents(n) ==
    IF ~extract_layer_index(n).some THEN {}
    ELSE { vcfg.component_overrides[i].parent_id :
             i \in { k \in 1..Len(vcfg.component_overrides) :
                       /\ vcfg.component_overrides[k].layer_start
                             <= extract_layer_index(n).id
                       /\ extract_layer_index(n).id
                             <= vcfg.component_overrides[k].layer_end
                       /\ vcfg.component_overrides[k].component
                             = classify_tensor(n) } }

\* the parents named by the layer assignments for the layer of n
LayerAssignmentParents(n) ==
    IF ~extract_layer_index(n).some THEN {}
    ELSE { vcfg.layer_assignments[i].source_parent_id :
             i \in { k \in 1..Len(vcfg.layer_assignments) :
                       vcfg.layer_assignments[k].layer_index
                         = extract_layer_index(n).id } }

\* n is produced by a single Copy whose source is one of the parents in P
CopiedFrom(n, P) ==
    /\ Len(OpsNamed(n)) = 1
    /\ OpsNamed(n)[1].kind = "Copy"
    /\ OpsNamed(n)[1].parent_ids[1] \in P

\* C11: for every tensor of the primary parent the source is resolved by
\* strict priority: a tensor-name override wins over a matching component
\* override, which wins over a layer assignment, which wins over the method
\* default; with all three applicable the operation is a Copy from the
\* tensor override's parent.
C11_OverridePriority ==
    preview.ok =>
        \A n \in Range(parents[1].tensors) :
            IF TensorOverrideParents(n) # {}
            THEN CopiedFrom(n, TensorOverrideParents(n))
            ELSE IF ComponentOverrideParents(n) # {}
            THEN CopiedFrom(n, ComponentOverrideParents(n))
            ELSE LayerAssignmentParents(n) # {}
                    => CopiedFrom(n, LayerAssignmentParents(n))

\* a tensor with a tensor override, a component override and a layer
\* assignment that name three different parents was planned
C11_Witness ==
    /\ preview.ok
    /\ TB \in Range(parents[1].tensors)
    /\ TensorOverrideParents(TB) = { 3 }
    /\ ComponentOverrideParents(TB) = { 2 }
    /\ LayerAssignmentParents(TB) = { 1 }
    /\ CopiedFrom(TB, { 3 })

\* C12: in every plan returned by build_plan each output tensor name is
\* produced by exactly one operation: no two Copy, Merge or Synthesize
\* operations carry the same tensor_name.
C12_OneOperationPerName ==
    preview.ok =>
        \A i, j \in 1..Len(preview.operations) :
            (/\ i # j
             /\ preview.operations[i].kind # "CopyMetadata"
             /\ preview.operations[j].kind # "CopyMetadata")
                => preview.operations[i].tensor_name
                     # preview.operations[j].tensor_name

\* the registered parent in the lowest-numbered occupied slot
FirstSlotParent ==
    parents[CHOOSE i \in 1..Len(parents) :
                \A j \in 1..Len(parents) : parents[i].slot <= parents[j].slot]

\* C13: the primary parent of build_plan, whose tensor list drives the plan
\* and whose id is the default Copy and CopyMetadata source, is the parent in
\* the lowest-numbered occupied slot, whatever the order of the adds.
C13_PrimaryIsFirstSlot ==
    preview.ok =>
        /\ vcfg.method # "MoeConversion"
             => [i \in 1..(Len(preview.operations) - 1) |->
                    preview.operations[i].tensor_name] = FirstSlotParent.tensors
        /\ ~vcfg.base_parent_id.some
             => preview.operations[Len(preview.operations)].parent_ids
                  = << FirstSlotParent.id >>
        /\ \A i \in 1..(Len(preview.operations) - 1) :
              (/\ preview.operations[i].kind = "Copy"
               /\ vcfg.method # "MoeConversion"
               /\ TensorOverrideParents(preview.operations[i].tensor_name) = {}
               /\ ComponentOverrideParents(preview.operations[i].tensor_name) = {}
               /\ LayerAssignmentParents(preview.operations[i].tensor_name) = {})
                 => preview.operations[i].parent_ids = << FirstSlotParent.id >>

\* the default operation the statement prescribes for tensor n
DefaultOperation(n) ==
    IF vcfg.method \in { "Frankenmerge", "Passthrough" }
    THEN Copy(n, parents[1].id)
    ELSE IF \A i \in 1..Len(parents) : n \in Range(parents[i].tensors)
    THEN Merge(n, ConfigParentIds(vcfg), ConfigWeights(vcfg))
    ELSE Copy(n, parents[1].id)

NoOverrideApplies(n) ==
    /\ TensorOverrideParents(n) = {}
    /\ ComponentOverrideParents(n) = {}
    /\ LayerAssignmentParents(n) = {}

\* C14 as stated: with no override applying, Frankenmerge and Passthrough
\* copy the tensor from the primary parent; every other method except
\* MoeConversion merges it over the configured parents with the configured
\* weights if it is present in every parent, and copies it from the primary
\* parent otherwise.
C14_MethodDefault ==
    (preview.ok /\ vcfg.method # "MoeConversion") =>
        \A n \in Range(parents[1].tensors) :
            NoOverrideApplies(n) => OpsNamed(n) = << DefaultOperation(n) >>

\* C14: the same, the merge requiring at least two registered parents: on a
\* registry of one parent every tensor without an override is copied.
C14_MethodDefaultShared ==
    (preview.ok /\ vcfg.method # "MoeConversion") =>
        \A n \in Range(parents[1].tensors) :
            NoOverrideApplies(n) =>
                OpsNamed(n) = << IF Len(parents) >= 2 THEN DefaultOperation(n)
                                 ELSE Copy(n, parents[1].id) >>

\* a plan over three parents merged a tensor all of them hold and copied one
\* that the third lacks
C14_Witness ==
    /\ preview.ok
    /\ vcfg.method = "Ties"
    /\ Len(parents) = 3
    /\ NoOverrideApplies(TA) /\ NoOverrideApplies(TC)
    /\ OpsNamed(TA) = << Merge(TA, << 1, 2 >>, << 50, 50 >>) >>
    /\ OpsNamed(TC) = << Copy(TC, 1) >>

\* C15: a plan holds exactly one CopyMetadata operation, it is the last
\* operation, and it names config.base_parent_id when that is set and the
\* primary parent (the first parent of the registry) otherwise.
C15_TrailingCopyMetadata ==
    preview.ok =>
        LET ops == preview.operations
            meta == { i \in 1..Len(ops) : ops[i].kind = "CopyMetadata" }
        IN /\ meta = { Len(ops) }
           /\ ops[Len(ops)].parent_ids =
                  << IF vcfg.base_parent_id.some THEN vcfg.base_parent_id.id
                     ELSE parents[1].id >>

\* a plan of several operations whose configuration names a base parent that
\* is not the primary parent
C15_Witness ==
    /\ preview.ok
    /\ Len(preview.operations) > 2
    /\ vcfg.base_parent_id = Some(2)
    /\ parents[1].id = 1
    /\ preview.operations[Len(preview.operations)] = CopyMetadata(2)

\* ------------------------------------------------- manifest properties

\* the operations of a plan that are not CopyMetadata, in plan order
TensorOperations(operations) ==
    LET F[i \in 0..Len(operations)] ==
            IF i = 0 THEN << >>
            ELSE IF operations[i].kind = "CopyMetadata" THEN F[i - 1]
            ELSE Append(F[i - 1], operations[i])
    IN F[Len(operations)]

RECURSIVE SumSizes(_)
SumSizes(tensors) ==
    IF Len(tensors) = 0 THEN 0
    ELSE tensors[1].f32_byte_size + SumSizes(Tail(tensors))

\* one entry per tensor operation in plan order, ranges that do not overlap,
\* sizes that sum to total_data_bytes, and the same manifest when
\* build_output_manifest runs again on the plan and the snapshot
ManifestLayout(c) ==
    LET m == trace[c].manifest
        ops == TensorOperations(plan[c])
    IN /\ Len(m.tensors) = Len(ops)
       /\ \A i \in 1..Len(ops) : m.tensors[i].name = ops[i].tensor_name
       /\ \A i, j \in 1..Len(m.tensors) :
             i < j => m.tensors[i].data_offset + m.tensors[i].f32_byte_size
                        <= m.tensors[j].data_offset
       /\ SumSizes(m.tensors) = m.total_data_bytes
       /\ build_output_manifest(plan[c], snap[c]) = m

\* C16 as stated: the manifest has the layout above and its data_offset
\* values are strictly increasing.
C16_StrictlyIncreasingOffsets ==
    \A c \in Callers :
        trace[c].manifest.status = "ok" =>
            /\ ManifestLayout(c)
            /\ \A i, j \in 1..Len(trace[c].manifest.tensors) :
                  i < j => trace[c].manifest.tensors[i].data_offset
                             < trace[c].manifest.tensors[j].data_offset

\* C16: the manifest has the layout above; every entry starts where the
\* entry before it ends, so that the data_offset values never decrease and
\* increase strictly after every entry of non-zero size.
C16_ManifestLayout ==
    \A c \in Callers :
        trace[c].manifest.status = "ok" =>
            LET tensors == trace[c].manifest.tensors
            IN /\ ManifestLayout(c)
               /\ \A i \in 1..Len(tensors) :
                     tensors[i].data_offset =
                        IF i = 1 THEN 0
                        ELSE tensors[i - 1].data_offset
                               + tensors[i - 1].f32_byte_size
               /\ \A i \in 1..(Len(tensors) - 1) :
                     /\ tensors[i].data_offset <= tensors[i + 1].data_offset
                     /\ tensors[i].f32_byte_size > 0
                          => tensors[i].data_offset < tensors[i + 1].data_offset

\* a manifest of a tensor without elements followed by one with elements,
\* both at offset 0
C16_Witness ==
    /\ trace[1].manifest.status = "ok"
    /\ Len(trace[1].manifest.tensors) = 2
    /\ trace[1].manifest.tensors[1].f32_byte_size = 0
    /\ trace[1].manifest.tensors[2].data_offset = 0
    /\ trace[1].manifest.total_data_bytes = 12

\* the tensors call c has written, in the order of the write_tensor calls
Written(c) ==
    LET io == trace[c].io
        F[i \in 0..Len(io)] ==
            IF i = 0 THEN << >>
            ELSE IF io[i].kind = "write" THEN Append(F[i - 1], io[i].shape)
            ELSE F[i - 1]
    IN F[Len(io)]

RECURSIVE WrittenBytes(_, _)
WrittenBytes(shapes, k) ==
    IF k = 0 THEN 0
    ELSE compute_f32_byte_size(shapes[k]) + WrittenBytes(shapes, k - 1)

\* C17: every tensor a merge writes has the shape the manifest records for
\* it, and every manifest data_offset is the size of the tensors written
\* before that tensor.
C17_WrittenShapeIsManifestShape ==
    \A c \in Callers :
        LET w == Written(c)
            tensors == trace[c].manifest.tensors
        IN \A k \in 1..Len(w) :
              /\ k <= Len(tensors)
              /\ w[k] = tensors[k].shape
              /\ tensors[k].data_offset = WrittenBytes(w, k - 1)

\* ------------------------------------------------- progress properties

AllPhases ==
    << "validating", "planning", "merging", "writing", "copying", "verifying" >>

IsPrefix(s, t) == Len(s) <= Len(t) /\ s = SubSeq(t, 1, Len(s))

Returned(c) == pc[c] \in { "ex_return", "done" } /\ result[c] # "none"

CompleteEvents(c) ==
    { i \in 1..Len(trace[c].events) : trace[c].events[i].stage = "complete" }

\* C18: a successful run of execute_merge emits the six phases once each in
\* order and its last progress event is 'complete'; at every moment of any
\* run the phases emitted so far are a prefix of the six, and a run that
\* fails or is cancelled never emits 'complete'.
C18_PhaseOrder ==
    \A c \in Callers :
        /\ IsPrefix(phases[c], AllPhases)
        /\ (Returned(c) /\ result[c] = "ok")
              => /\ phases[c] = AllPhases
                 /\ CompleteEvents(c) = { Len(trace[c].events) }
        /\ ~(Returned(c) /\ result[c] = "ok") => CompleteEvents(c) = {}

\* a merge of two tensor operations has returned successfully
C18_Witness ==
    /\ pc[1] = "done"
    /\ result[1] = "ok"
    /\ tensors_done[1] = 2
    /\ phases[1] = AllPhases
    /\ trace[1].events[Len(trace[1].events)].stage = "complete"

\* the positions in the I/O history of call c that are write_tensor calls
Writes(c) ==
    { i \in 1..Len(trace[c].io) : trace[c].io[i].kind = "write" }

\* the plan positions of the first k tensor operations of call c
FirstOperations(c, k) ==
    { i \in 1..Len(plan[c]) :
        /\ plan[c][i].kind # "CopyMetadata"
        /\ Cardinality({ j \in 1..i : plan[c][j].kind # "CopyMetadata" }) <= k }

\* C19: the loads and writes of a merge follow the plan order; the tensor
\* an operation produces is written after the loads of that operation and
\* before any load of a later one, so the k-th write is that of the k-th
\* tensor operation of the plan; tensors_done counts the writes, and a
\* successful merge has written one tensor per tensor operation.
C19_PlanOrderStreaming ==
    \A c \in Callers :
        LET io == trace[c].io IN
        /\ \A i, j \in 1..Len(io) :
              i < j => /\ io[i].op <= io[j].op
                       /\ io[i].kind = "write" => io[i].op < io[j].op
        /\ { io[i].op : i \in Writes(c) } = FirstOperations(c, tensors_done[c])
        /\ Cardinality(Writes(c)) = tensors_done[c]
        /\ (Returned(c) /\ result[c] = "ok")
              => tensors_done[c] = total_ops(plan[c])

\* a successful merge whose first operation loaded two parent tensors and
\* wrote their merge before the second operation loaded anything
C19_Witness ==
    /\ pc[1] = "done"
    /\ result[1] = "ok"
    /\ Len(trace[1].io) >= 5
    /\ trace[1].io[1] = Load(1)
    /\ trace[1].io[2] = Load(1)
    /\ trace[1].io[3].kind = "write"
    /\ trace[1].io[4] = Load(2)

MergingEvents(c) ==
    { i \in 1..Len(trace[c].events) : trace[c].events[i].stage = "merging" }

\* C20: every progress event has a percent from 0 to 100; a merging event
\* has percent 10 + 80 * tensors_done / tensors_total, within 10 to 90, and
\* there is one per tensor operation started; the percent never decreases
\* over a run, tensors_done never exceeds tensors_total, and only the
\* 'complete' event has percent 100.
C20_ProgressPercent ==
    \A c \in Callers :
        LET events == trace[c].events IN
        /\ \A i \in 1..Len(events) :
              LET e == events[i] IN
              /\ e.den > 0
              /\ 0 <= e.num /\ e.num <= 100 * e.den
              /\ e.tensors_done <= e.tensors_total
              /\ e.num = 100 * e.den => e.stage = "complete"
              /\ e.stage = "merging" =>
                    /\ 10 * e.den <= e.num /\ e.num <= 90 * e.den
                    /\ e.num * e.tensors_total =
                          (10 * e.tensors_total + 80 * e.tensors_done) * e.den
              /\ i > 1 => events[i - 1].num * e.den <= e.num * events[i - 1].den
        /\ Cardinality(MergingEvents(c)) = trace[c].started

\* a successful merge of two tensor operations reported 10, then 50 percent
\* while merging
C20_Witness ==
    /\ pc[1] = "done"
    /\ result[1] = "ok"
    /\ Len(trace[1].events) = 7
    /\ trace[1].events[3] =
          MergeProgress("merging", [num |-> 20, den |-> 2], 0, 2)
    /\ trace[1].events[4] =
          MergeProgress("merging", [num |-> 100, den |-> 2], 1, 2)
    /\ trace[1].events[7].stage = "complete"

\* ------------------------------------------------- registry properties

\* the tensor names some registered parent holds
AllTensorNames == UNION { Range(parents[i].tensors) : i \in 1..Len(parents) }

\* C22: shared_tensor_names is empty when fewer than two parents are
\* registered and otherwise the intersection of the tensor-name sets of all
\* registered parents; the names a previewed plan merges are among them.
C22_SharedIsIntersection ==
    /\ shared_tensor_names(parents) =
          IF Len(parents) < 2 THEN {}
          ELSE { n \in AllTensorNames :
                   \A i \in 1..Len(parents) : n \in Range(parents[i].tensors) }
    /\ preview.ok =>
          \A i \in 1..Len(preview.operations) :
              preview.operations[i].kind = "Merge" =>
                  \A j \in 1..Len(parents) :
                      preview.operations[i].tensor_name
                          \in Range(parents[j].tensors)

\* a plan over three parents, the third lacking two tensors of the others:
\* two names are shared and merged, the others are not
C22_Witness ==
    /\ preview.ok
    /\ Len(parents) = 3
    /\ shared_tensor_names(parents) = { TA, TB }
    /\ vcfg.method = "Average"
    /\ NoOverrideApplies(TA) /\ NoOverrideApplies(TC)
    /\ OpsNamed(TA)[1].kind = "Merge"
    /\ OpsNamed(TC)[1].kind = "Copy"

\* ------------------------------------------------- strategy properties

\* every parent of operation i of call c is in the snapshot and holds the tensor
Resolves(c, i) ==
    \A j \in 1..Len(plan[c][i].parent_ids) :
        /\ HasParent(snap[c], plan[c][i].parent_ids[j])
        /\ plan[c][i].tensor_name
              \in Range(ParentById(snap[c], plan[c][i].parent_ids[j]).tensors)

\* the shapes of the parent tensors operation i of call c loads
MergeInputs(c, i) ==
    [j \in 1..Len(plan[c][i].parent_ids) |->
        tensor_shape(ParentById(snap[c], plan[c][i].parent_ids[j]),
                     plan[c][i].tensor_name)]

\* the write_tensor calls of operation i of call c
WritesOf(c, i) ==
    { k \in 1..Len(trace[c].io) :
        trace[c].io[k].kind = "write" /\ trace[c].io[k].op = i }

\* the Merge operations of the plan of call c
MergeOps(c) == { i \in 1..Len(plan[c]) : plan[c][i].kind = "Merge" }

\* C24: Slerp merges exactly two tensors: a Merge operation under Slerp
\* that names fewer or more than two parents fails and writes no tensor.
C24_SlerpExactlyTwo ==
    \A c \in Callers : \A i \in MergeOps(c) :
        (cfg[c].method = "Slerp" /\ Len(plan[c][i].parent_ids) # 2)
            => WritesOf(c, i) = {}

\* ParameterSlice runs operation i of call c in proportional mode
ProportionalMode(c, i) ==
    /\ cfg[c].method = "ParameterSlice"
    /\ \/ ~cfg[c].params.slice_ranges.some
       \/ Len(cfg[c].params.slice_ranges.ranges) # Len(plan[c][i].parent_ids)

\* slice_dim counted from 1
SliceDim(c) ==
    (IF cfg[c].params.slice_dim.some THEN cfg[c].params.slice_dim.id ELSE 0) + 1

\* C25: in proportional mode the slices of ParameterSlice cover the whole
\* slice dimension: the tensor written has the extent of the input tensors
\* along slice_dim, for every parent count and weight vector.
C25_ProportionalSlicesCover ==
    \A c \in Callers : \A i \in MergeOps(c) :
        (ProportionalMode(c, i) /\ WritesOf(c, i) # {})
            => \A k \in WritesOf(c, i) :
                  trace[c].io[k].shape[SliceDim(c)]
                      = MergeInputs(c, i)[1][SliceDim(c)]

\* C30: whenever adapt_tensor succeeds on a parent tensor of an operation
\* that has run, the tensor it returns has the target shape, the shape of
\* the first parent's tensor.
C30_AdaptedHasTargetShape ==
    \A c \in Callers : \A i \in MergeOps(c) :
        (i < opIdx[c] /\ Resolves(c, i)
         /\ cfg[c].projection_strategy # "none")
            => \A j \in 2..Len(plan[c][i].parent_ids) :
                  LET src == MergeInputs(c, i)[j]
                      target == MergeInputs(c, i)[1]
                      adapted == adapt_tensor(src, target,
                                              cfg[c].projection_strategy)
                  IN (Len(src) = Len(target) /\ adapted.ok)
                        => adapted.shape = target

\* the parents of the snapshot of call c all have the same tensors and shapes
UniformParents(c) ==
    /\ Len(snap[c]) >= 2
    /\ \A i \in 1..Len(snap[c]) :
          /\ snap[c][i].tensors = snap[c][1].tensors
          /\ snap[c][i].shapes = snap[c][1].shapes

\* the configuration of call c has no override and names registered parents only
PlainConfig(c) ==
    /\ cfg[c].layer_assignments = << >>
    /\ cfg[c].component_overrides = << >>
    /\ cfg[c].tensor_overrides = << >>
    /\ \A i \in 1..Len(cfg[c].parents) :
          HasParent(snap[c], cfg[c].parents[i].parent_id)
    /\ cfg[c].base_parent_id.some => HasParent(snap[c], cfg[c].base_parent_id.id)

\* C28: on parents that all have the same tensor names and shapes, with a
\* configuration without overrides whose parent ids all resolve, every Copy
\* operation of the plan names a tensor its source parent holds and
\* build_output_manifest succeeds, for every method.
C28_UniformPlanHasManifest ==
    \A c \in Callers :
        (UniformParents(c) /\ PlainConfig(c)
         /\ trace[c].manifest.status # "none")
            => /\ \A i \in 1..Len(plan[c]) :
                     plan[c][i].kind = "Copy" => Resolves(c, i)
               /\ trace[c].manifest.status = "ok"

\* C29: every Merge operation of a plan build_plan returned has at least
\* one parent id and as many weights as parent ids.
C29_MergeHasParents ==
    \A c \in Callers : \A i \in MergeOps(c) :
        /\ Len(plan[c][i].parent_ids) >= 1
        /\ Len(plan[c][i].weights) = Len(plan[c][i].parent_ids)

\* ------------------------------------------------------- flag properties

\* C26: whenever merge_execute has returned from a call that passed the
\* merge_active check (with success, a planning error, an execution error,
\* a cancellation or a task join error), merge_active is false again.
C26_ActiveClearedOnReturn ==
    (pc[1] = "done" /\ result[1] # "err_active") => ~merge_active

\* C27: a merge_cancel request issued while merge_active is set and a poll
\* of the flag is still ahead is not lost: the merge does not return
\* success (it returns MergeCancelled, or the error of the step the request
\* found running).
C27_CancelNotLost ==
    \A c \in Callers :
        (pc[c] = "done" /\ trace[c].cancel_requested) => result[c] # "ok"

\* -------------------------------------------------------- GGUF properties

\* C23: in every GGUF file write_gguf wrote the tensor data starts at a
\* multiple of 32, the padding being (32 - header_bytes mod 32) mod 32, and
\* that offset is the data_offset GgufReader::parse_header computes from the
\* end of the tensor info table, whatever the header length.
C23_DataSectionAligned ==
    /\ gguf.stage # "none"
          => /\ gguf.padding = (32 - (gguf.bytes_written % 32)) % 32
             /\ (gguf.bytes_written + gguf.padding) % 32 = 0
    /\ (gguf.stage = "parsed" /\ gguf.parsed)
          => /\ gguf.pos = gguf.bytes_written
             /\ gguf.data_offset = gguf.bytes_written + gguf.padding

\* a header that ends 7 bytes past a multiple of 32 was written with 25
\* bytes of padding and read back
C23_Witness ==
    /\ gguf.stage = "parsed"
    /\ gguf.parsed
    /\ gguf.bytes_written % 32 = 7
    /\ gguf.padding = 25
    /\ gguf.data_offset = gguf.bytes_written + 25

\* ------------------------------------------------ auxiliary-file properties

\* the directory of a parent: the directory it was loaded from, or the one
\* that holds its model file
DirectoryOf(p) == IF p.is_dir THEN p.file_path ELSE PathParent(p.file_path)

DirectoryParents(c) == { i \in 1..Len(snap[c]) : snap[c][i].is_dir }

\* the source the statement names: the base parent's directory, or with no
\* base configured the first directory parent (a set of at most one)
StatedSources(c) ==
    IF cfg[c].base_parent_id.some
    THEN { DirectoryOf(snap[c][i]) :
             i \in { j \in 1..Len(snap[c]) :
                       snap[c][j].id = cfg[c].base_parent_id.id } }
    ELSE IF DirectoryParents(c) # {}
    THEN { snap[c][SetMin(DirectoryParents(c))].file_path }
    ELSE {}

\* the source with the fallbacks: the base parent if it is configured and
\* registered, else the first directory parent, else the first parent
FallbackSources(c) ==
    IF cfg[c].base_parent_id.some
       /\ HasParent(snap[c], cfg[c].base_parent_id.id)
    THEN StatedSources(c)
    ELSE IF DirectoryParents(c) # {}
    THEN { snap[c][SetMin(DirectoryParents(c))].file_path }
    ELSE { DirectoryOf(snap[c][i]) : i \in { j \in 1..Len(snap[c]) : j = 1 } }

\* the contents the files named f have in the directories `sources`
ContentsIn(c, sources, f) == { trace[c].aux_before[d][f] : d \in sources }

\* the copy of call c ran after writer.finish(); it changed nothing but
\* absent auxiliary files of the output location, each to the content of
\* the file of that name in one of `sources` (or to an incomplete file when
\* fs::copy failed), and copied_files lists the files copied, once each
AuxCopyFrame(c, sources) ==
    LET before == trace[c].aux_before
        target == AuxTargetDir(cfg[c])
        done == { f \in FileNames :
                    /\ before[target][f] = "absent"
                    /\ aux[target][f] \notin { "absent", "partial" } }
    IN  /\ trace[c].finished
        /\ \A d \in AuxDirs, f \in FileNames :
              aux[d][f] # before[d][f]
                 => /\ d = target
                    /\ f \in Range(AUXILIARY_FILES)
                    /\ before[d][f] = "absent"
                    /\ aux[d][f] \in ContentsIn(c, sources, f) \cup { "partial" }
        /\ Range(trace[c].copied_files) = done
        /\ Len(trace[c].copied_files) = Cardinality(done)

\* C21 as stated: the files come from the base parent's directory or, with
\* no base configured, from the first directory parent.
C21_AuxCopyFromBaseOrDirectory ==
    \A c \in Callers :
        trace[c].copy_ran => AuxCopyFrame(c, StatedSources(c))

\* C21: after all tensors are written the auxiliary-file copy takes files
\* of the fixed list only, from the directory of the base parent if it is
\* configured and registered, else of the first directory parent, else of
\* the first parent; it never changes a file the output location already
\* holds, and copied_files lists exactly the files it copied.
C21_AuxCopyFrame ==
    \A c \in Callers :
        trace[c].copy_ran => AuxCopyFrame(c, FallbackSources(c))

\* a copy from the base parent's directory that skipped config.json, which
\* the output directory already held, and copied tokenizer.json
C21_Witness ==
    /\ trace[1].copy_ran
    /\ cfg[1].base_parent_id = Some(2)
    /\ trace[1].aux_before["out"]["config.json"] = "old"
    /\ aux["out"]["config.json"] = "old"
    /\ aux["out"]["tokenizer.json"] = "B"
    /\ aux["dirB"]["config.json"] = "B"
    /\ trace[1].copied_files = << "tokenizer.json" >>

====
